---- MODULE Spec2Model ----
(***************************************************************************)
(* A model of brx_sync: the bidirectional inventory synchronisation        *)
(* service between a local PostgreSQL store and the CardTrader marketplace.*)
(*                                                                         *)
(* The module holds several specifications over one set of variables; each *)
(* one drives a part of the service and leaves the other parts at rest:    *)
(*   SpecPurchase  the purchase saga of routes/sync.py                     *)
(*   SpecInv       every writer of an item's quantity, interleaved         *)
(*   SpecWebhook   an order.create webhook followed by an order.destroy    *)
(*   SpecBulk      the initial_bulk_sync tasks of tasks/sync_tasks.py      *)
(*   SpecKeys      those tasks beside deletes, updates and drift syncs     *)
(*   SpecFactor    the adaptive factor of services/adaptive_rate_limiter   *)
(*   SpecLimiter   check_and_consume and the client's rate-limit wait      *)
(*   SpecBreaker   the circuit breaker as the client's workers drive it    *)
(*   SpecReceive   the webhook endpoints and their signature validation    *)
(*   SpecStart     the preconditions of the start_sync endpoint            *)
(*   SpecCircuit   the circuit breaker's methods, each called on its own   *)
(*   SpecRetry     the 429 retry loop of the client's _make_request        *)
(*   SpecNotify    concurrent record_429_response calls for one user       *)
(*   SpecUpdate    item updates and deletes and the tasks they queue       *)
(*   SpecDup       a bulk sync whose chunks hold the same product          *)
(*   SpecPlain     the plain RateLimiter's check_and_consume               *)
(*   SpecExpiry    the breaker's methods while its state key expires       *)
(*   SpecDelete    sync_delete tasks for products the marketplace lost     *)
(*   SpecAvail     the purchase saga of one buyer on its own               *)
(*   SpecOrder     the create, update and destroy webhooks of one order    *)
(***************************************************************************)
EXTENDS Integers, Sequences, FiniteSets, TLC

(***************************************************************************)
(* Bounds of the model.                                                    *)
(***************************************************************************)
MaxQty == 2
MaxReq == 2
NumBuyers == 2
NumProducts == 1
MaxItems == 2
MaxProducts == 2
\* The source's CHUNK_SIZE is 5000; the model scales it to the export's size.
CHUNK_SIZE == 1
MaxRetries == 1
MaxTime == 3
\* RATE_LIMIT_REQUESTS and RATE_LIMIT_WINDOW_SECONDS, scaled to the model's clock.
BaseRequests == 2
WindowSeconds == 1
\* The clock `now` counts ticks, TicksPerSecond to a second.
TicksPerSecond == 2
\* The breaker's timeout and failure_threshold, scaled to the model's clock.
BreakerTimeout == 2
FailureThreshold == 3
HalfOpenTimeout == 1
MaxLog == 3

Buyers == 1..NumBuyers
Quantities == 0..MaxQty
ProductIds == 1..NumProducts

Max(a, b) == IF a >= b THEN a ELSE b
Min(a, b) == IF a <= b THEN a ELSE b

VARIABLES
    rows,        \* user_inventory_items: a set of rows [id, blueprint_id, external_stock_id, quantity]
    remote,      \* the marketplace's product: [present, quantity]
    rowLock,     \* the buyer holding the FOR UPDATE lock on the row, 0 when nobody does
    pur,         \* purchase_item requests: buyer -> the request's local variables
    deleteCalls, \* DELETE /products/{id} requests the marketplace has received
    envFaults,   \* whether HTTP calls and DB commits may fail in this behaviour
    init0,       \* the quantities the behaviour started with: [q, r]
    lastOp,      \* the last inventory operation applied: [op, old, arg]
    whOrder,     \* the order payload the two webhooks of SpecWebhook carry
    whPc,        \* SpecWebhook: "start", "created" or "destroyed"
    whBefore,    \* SpecWebhook: the rows before the order.create webhook
    whReq,       \* the webhook HTTP request and its answer
    export,      \* get_products_export: the marketplace's products of the user
    syncStatus,  \* user_sync_settings.sync_status
    settings,    \* user_sync_settings: whether last_error and last_sync_at are set
    operations,  \* sync_operations rows by operation_id (the Celery task id)
    startReq,    \* the last start_sync request and its answer
    upd,         \* sync_update and sync_delete: [task, received], the tasks' local
                 \* variables by task id and the last payload the marketplace got
    tasks,       \* initial_bulk_sync tasks: task id -> the task's local variables
    now,         \* time.time(), in ticks
    kvUp,        \* whether the Redis server answers
    factor,      \* rate_limit:{user}:factor: [present, value], value in 1/FactorScale
    recent429,   \* whether a 429 timestamp of the last 5 minutes is stored
    notified,    \* the 429 notifications followed: [tracked, from, count], the
                 \* factor they started from and the calls that have returned
    bucket,      \* rate_limit:{user}: [present, tokens, refill_time]
    sinceRefill, \* the last stored refill: [capacity, allowed], the max_tokens it
                 \* installed and the calls the script has allowed since
    lim,         \* rate-limiter callers: worker -> the call's local variables
    brState,     \* circuit_breaker:cardtrader:state: [value, expires]
    brOpenedAt,  \* circuit_breaker:cardtrader:opened_at: [at, expires]
    brFailures,  \* circuit_breaker:cardtrader:failures: [count, expires]
    brk,         \* client requests: worker -> the request's local variables
    lastOpened,  \* when set_state(OPEN) last ran: [ever, at]
    halfOpened,  \* the last OPEN -> HALF_OPEN transition: [ever, elapsed, oks], oks
                 \* the successful responses the client has had in HALF_OPEN since
    brSuccesses, \* circuit_breaker:cardtrader:successes: [count, expires]
    brHist,      \* what record_failure and record_success were told, see NoHist
    rq           \* SpecRetry: worker -> the locals of its _make_request retry loop

varsPurchase == <<rowLock, pur, deleteCalls, envFaults, init0>>

varsWebhook == <<lastOp, whOrder, whPc, whBefore, whReq>>

varsBulk == <<export, syncStatus, settings, operations, startReq, upd, tasks>>

varsLimiter == <<kvUp, factor, recent429, notified, bucket, sinceRefill, lim>>

varsCircuit == <<brSuccesses, brHist>>

varsBreaker ==
    <<brState, brOpenedAt, brFailures, brk, lastOpened, halfOpened, varsCircuit>>

varsKV == <<now, varsLimiter, varsBreaker, rq>>

vars == <<rows, remote, varsPurchase, varsWebhook, varsBulk, varsKV>>

\* What the purchase saga never touches.
restPurchase == <<varsWebhook, varsBulk, varsKV>>

(***************************************************************************)
(* The local store.                                                        *)
(***************************************************************************)
HasRow(id) == \E r \in rows : r.id = id

RowById(id) == CHOOSE r \in rows : r.id = id

SetQuantity(rs, id, q) ==
    {IF r.id = id THEN [r EXCEPT !.quantity = q] ELSE r : r \in rs}

\* The single listing the purchase requests are about: item 1, product 1.
StockRow(q) == [id |-> 1, blueprint_id |-> 1, external_stock_id |-> 1, quantity |-> q]

(***************************************************************************)
(* The marketplace, as the client's docstrings describe it.                *)
(***************************************************************************)
NoProduct == [present |-> FALSE, quantity |-> 0]

\* POST /products/{id}/increment: a result of 0 or less deletes the product.
MarketIncrement(prod, delta) ==
    IF prod.quantity + delta > 0
    THEN [present |-> TRUE, quantity |-> prod.quantity + delta]
    ELSE NoProduct

\* check_product_availability: the product's quantity in the export; 0 when the
\* product is not in the export, and 0 as well when the call raised.
AvailabilityQuantity(prod, ok) ==
    IF ok /\ prod.present THEN prod.quantity ELSE 0

\* The outcomes one HTTP call or one DB commit can have in this behaviour.
Outcomes == IF envFaults THEN BOOLEAN ELSE {TRUE}

\* The webhook variables while no webhook specification runs.
NoOp == [op |-> "none", old |-> 0, arg |-> 0]

NoOrder == [state |-> "none", previous_state |-> "none", order_items |-> <<>>]

\* No webhook request: header and secret are 0 when absent, else the key
\* the Signature was computed with and the key stored as webhook_secret.
NoRequest ==
    [known |-> FALSE, secret |-> 0, header |-> 0, status_code |-> 0,
     response |-> "none", queued |-> FALSE]

WebhookAtRest ==
    /\ whReq = NoRequest
    /\ lastOp = NoOp
    /\ whOrder = NoOrder
    /\ whPc = "start"
    /\ whBefore = {}

\* The bulk-sync variables while no bulk sync is modelled.
TaskIds == 1..2

\* A sync_operations row that does not exist.  progress tells whether the
\* metadata has the keys total_chunks, processed_chunks and progress_percent.
NoOperation ==
    [status |-> "none", operation_type |-> "none", progress |-> FALSE,
     total_chunks |-> 0, processed_chunks |-> 0, progress_percent |-> 0,
     created |-> 0, updated |-> 0]

NoSettings == [last_error |-> FALSE, last_sync_at |-> FALSE]

NoTask ==
    [pc |-> "none", retries |-> 0, sync_op |-> FALSE, products |-> <<>>,
     batch_start |-> 0, chunk_pc |-> <<>>, existing |-> <<>>,
     created |-> 0, updated |-> 0, skipped |-> 0, after |-> {}]

\* No sync_update or sync_delete task with this id.
NoUpdate == [pc |-> "none", kind |-> "none", retries |-> 0, quantity |-> 0]

NoPayload == [any |-> FALSE, quantity |-> 0]

NoUpdates == [task |-> [t \in TaskIds |-> NoUpdate], received |-> NoPayload]

\* No start_sync request has been answered.
NoStart ==
    [has_settings |-> FALSE, token |-> "none", force |-> FALSE,
     sync_status |-> "none", answer |-> "none", task_id |-> 0]

BulkAtRest ==
    /\ startReq = NoStart
    /\ upd = NoUpdates
    /\ export = <<>>
    /\ syncStatus = "idle"
    /\ settings = NoSettings
    /\ operations = [t \in TaskIds |-> NoOperation]
    /\ tasks = [t \in TaskIds |-> NoTask]

\* The Redis keys of the rate limiter and of the circuit breaker, all absent,
\* and no caller in flight.
Workers == 1..2

NoFactor == [present |-> FALSE, value |-> 0]

NoBucket == [present |-> FALSE, tokens |-> 0, refill_time |-> 0]

NoRefill == [capacity |-> 0, allowed |-> 0]

NoNotified == [tracked |-> FALSE, from |-> 0, count |-> 0]

IdleCaller ==
    [pc |-> "idle", op |-> "none", current_factor |-> 0, effective_limit |-> 0,
     second |-> FALSE, wake |-> 0, kv_answered |-> FALSE, outcome |-> "none",
     allowed |-> FALSE, wait_seconds |-> 0, sent |-> FALSE, breaker_open |-> FALSE,
     now |-> 0, bucket_data |-> NoBucket]

NoKey == [value |-> "none", expires |-> 0]

NoOpenedAt == [at |-> 0, expires |-> 0]

NoFailures == [count |-> 0, expires |-> 0]

NoSuccesses == [count |-> 0, expires |-> 0]

\* The records made through the breaker's methods: first and kinds are the
\* time of the first failure the failures counter holds and the error types
\* it holds; span and opened_kinds are, for the last change into OPEN, the
\* time from that first failure to the opening one and the error types
\* counted; log lists the records made while the breaker was HALF_OPEN since
\* it last became so, each with the state the breaker had after it.
NoHist ==
    [first |-> 0, kinds |-> {}, opened |-> FALSE, span |-> 0, opened_kinds |-> {},
     log |-> <<>>]

\* answers429 counts the 429 answers received in a row, up to the threshold.
IdleRequest == [pc |-> "idle", failures |-> 0, retry_count |-> 0, answers429 |-> 0]

LimiterAtRest ==
    /\ kvUp = TRUE
    /\ factor = NoFactor
    /\ recent429 = FALSE
    /\ notified = NoNotified
    /\ bucket = NoBucket
    /\ sinceRefill = NoRefill
    /\ lim = [w \in Workers |-> IdleCaller]

BreakerAtRest ==
    /\ brState = NoKey
    /\ brOpenedAt = NoOpenedAt
    /\ brFailures = NoFailures
    /\ brk = [w \in Workers |-> IdleRequest]
    /\ lastOpened = [ever |-> FALSE, at |-> 0]
    /\ halfOpened = [ever |-> FALSE, elapsed |-> 0, oks |-> 0]
    /\ brSuccesses = NoSuccesses
    /\ brHist = NoHist

\* sent counts the HTTP requests of the call, recorded its calls of
\* record_429_response.
IdleRetry ==
    [pc |-> "idle", retry_count |-> 0, sent |-> 0, recorded |-> 0, outcome |-> "none"]

KVAtRest ==
    /\ rq = [w \in Workers |-> IdleRetry]
    /\ now = 0
    /\ LimiterAtRest
    /\ BreakerAtRest

(***************************************************************************)
(* purchase_item (routes/sync.py).                                         *)
(***************************************************************************)
\* remote_step records what step 5 did to the marketplace ("none",
\* "decremented" or "deleted"); compensations counts the compensating
\* increment_product_quantity(id, +purchase_quantity) calls issued.
IdleBuyer ==
    [pc |-> "idle", req |-> 0, quantity_before |-> 0, cardtrader_quantity |-> 0,
     cardtrader_quantity_after |-> 0, status |-> "none", quantity_after |-> 0,
     remote_step |-> "none", compensations |-> 0]

\* The request's response: the locals are dropped with the request.
Respond(b, st, qa) ==
    [pc |-> "done", req |-> b.req, quantity_before |-> 0, cardtrader_quantity |-> 0,
     cardtrader_quantity_after |-> 0, status |-> st, quantity_after |-> qa,
     remote_step |-> b.remote_step, compensations |-> b.compensations]

\* Step 6: the quantity written by the local commit.
CommittedQuantityNoSubtract(quantity_before, purchase_quantity) == quantity_before

CommittedQuantity(quantity_before, purchase_quantity) ==
    quantity_before - purchase_quantity

\* Step 1: SELECT ... FOR UPDATE inside session.begin(); quantity_before is read.
PurchaseReserve(p) ==
    /\ pur[p].pc = "idle"
    /\ rowLock = 0
    /\ HasRow(1)
    /\ \E n \in 1..MaxReq :
          pur' = [pur EXCEPT ![p] = [@ EXCEPT !.pc = "locked", !.req = n,
                                       !.quantity_before = RowById(1).quantity]]
    /\ rowLock' = p
    /\ UNCHANGED <<rows, remote, deleteCalls, envFaults, init0, restPurchase>>

\* One transaction around the whole purchase: the request goes on while the
\* step-1 transaction and its lock stay open.
PurchaseReleaseKeepsLock(p) ==
    /\ pur[p].pc = "locked"
    /\ rowLock = p
    /\ rowLock' = rowLock
    /\ pur' = [pur EXCEPT ![p].pc =
                 IF pur[p].quantity_before < pur[p].req THEN "insuf_sync" ELSE "check"]
    /\ UNCHANGED <<rows, remote, deleteCalls, envFaults, init0, restPurchase>>

\* The step-1 transaction closes and releases the lock; the request goes on to
\* the insufficient-local branch or to the availability check.
PurchaseRelease(p) ==
    /\ pur[p].pc = "locked"
    /\ rowLock = p
    /\ rowLock' = 0
    /\ pur' = [pur EXCEPT ![p].pc =
                 IF pur[p].quantity_before < pur[p].req THEN "insuf_sync" ELSE "check"]
    /\ UNCHANGED <<rows, remote, deleteCalls, envFaults, init0, restPurchase>>

\* Insufficient local quantity: the marketplace is asked for the quantity.
PurchaseInsufSync(p) ==
    /\ pur[p].pc = "insuf_sync"
    /\ \E ok \in Outcomes :
          pur' = [pur EXCEPT ![p] = [@ EXCEPT !.pc = "insuf_write",
                     !.cardtrader_quantity = AvailabilityQuantity(remote, ok)]]
    /\ UNCHANGED <<rows, remote, rowLock, deleteCalls, envFaults, init0, restPurchase>>

\* Insufficient local quantity: the row is overwritten with the marketplace's
\* quantity; when that fails the response reports quantity_before.
PurchaseInsufWrite(p) ==
    /\ pur[p].pc = "insuf_write"
    /\ rowLock = 0
    /\ \E ok \in Outcomes :
          IF ok
          THEN /\ rows' = SetQuantity(rows, 1, pur[p].cardtrader_quantity)
               /\ pur' = [pur EXCEPT ![p] =
                            Respond(@, "insufficient", pur[p].cardtrader_quantity)]
          ELSE /\ rows' = rows
               /\ pur' = [pur EXCEPT ![p] =
                            Respond(@, "insufficient", pur[p].quantity_before)]
    /\ UNCHANGED <<remote, rowLock, deleteCalls, envFaults, init0, restPurchase>>

\* Step 4: check_product_availability, outside any transaction.
PurchaseCheck(p) ==
    /\ pur[p].pc = "check"
    /\ \E ok \in Outcomes :
          LET q == AvailabilityQuantity(remote, ok) IN
          pur' = [pur EXCEPT ![p] = [@ EXCEPT !.cardtrader_quantity = q,
                     !.pc = IF q < pur[p].req THEN "remote_insuf_write" ELSE "apply"]]
    /\ UNCHANGED <<rows, remote, rowLock, deleteCalls, envFaults, init0, restPurchase>>

\* The marketplace has too little: the row is overwritten with its quantity.
PurchaseRemoteInsufWrite(p) ==
    /\ pur[p].pc = "remote_insuf_write"
    /\ rowLock = 0
    /\ \E ok \in Outcomes :
          IF ok
          THEN /\ rows' = SetQuantity(rows, 1, pur[p].cardtrader_quantity)
               /\ pur' = [pur EXCEPT ![p] =
                            Respond(@, "insufficient_remote", pur[p].cardtrader_quantity)]
          ELSE /\ rows' = rows
               /\ pur' = [pur EXCEPT ![p] = Respond(@, "error", pur[p].quantity_before)]
    /\ UNCHANGED <<remote, rowLock, deleteCalls, envFaults, init0, restPurchase>>

\* Step 5, decrement: increment_product_quantity(id, -purchase_quantity).
PurchaseDecrement(p) ==
    /\ pur[p].pc = "apply"
    /\ pur[p].cardtrader_quantity - pur[p].req > 0
    /\ \E ok \in Outcomes :
          IF ok /\ remote.present
          THEN /\ remote' = MarketIncrement(remote, 0 - pur[p].req)
               /\ pur' = [pur EXCEPT ![p] = [@ EXCEPT !.pc = "commit",
                            !.remote_step = "decremented",
                            !.cardtrader_quantity_after =
                                pur[p].cardtrader_quantity - pur[p].req]]
          ELSE /\ remote' = remote
               /\ pur' = [pur EXCEPT ![p] = Respond(@, "error", pur[p].quantity_before)]
    /\ UNCHANGED <<rows, rowLock, deleteCalls, envFaults, init0, restPurchase>>

\* Step 5, delete: delete_product(id); a 404 answer counts as deleted.
PurchaseDelete(p) ==
    /\ pur[p].pc = "apply"
    /\ pur[p].cardtrader_quantity - pur[p].req <= 0
    /\ \E ok \in Outcomes :
          IF ok
          THEN /\ remote' = NoProduct
               /\ deleteCalls' = deleteCalls + 1
               /\ pur' = [pur EXCEPT ![p] = [@ EXCEPT !.pc = "commit",
                            !.remote_step = "deleted",
                            !.cardtrader_quantity_after = 0]]
          ELSE /\ remote' = remote
               /\ deleteCalls' = deleteCalls
               /\ pur' = [pur EXCEPT ![p] = Respond(@, "error", pur[p].quantity_before)]
    /\ UNCHANGED <<rows, rowLock, envFaults, init0, restPurchase>>

\* Step 6: the local commit writes quantity_before - purchase_quantity.
PurchaseCommit(p) ==
    /\ pur[p].pc = "commit"
    /\ rowLock = 0
    /\ \E ok \in Outcomes :
          IF ok /\ HasRow(1)
          THEN /\ rows' = SetQuantity(rows, 1,
                             CommittedQuantity(pur[p].quantity_before, pur[p].req))
               /\ pur' = [pur EXCEPT ![p] =
                            Respond(@, "success", pur[p].quantity_before - pur[p].req)]
          ELSE /\ rows' = rows
               /\ pur' = [pur EXCEPT ![p].pc = "compensate"]
    /\ UNCHANGED <<remote, rowLock, deleteCalls, envFaults, init0, restPurchase>>

\* The compensating calls the except branch issues: one increment when
\* cardtrader_quantity_after is not 0, none (a warning) when it is.
CompensatingCallsAlways(cardtrader_quantity_after) == 1

CompensatingCalls(cardtrader_quantity_after) ==
    IF cardtrader_quantity_after = 0 THEN 0 ELSE 1

\* Compensation: the decrement is given back; a deletion is only logged.  An
\* exception of the increment is logged and the error response still returned.
PurchaseCompensate(p) ==
    /\ pur[p].pc = "compensate"
    /\ \E ok \in Outcomes :
          LET calls == CompensatingCalls(pur[p].cardtrader_quantity_after) IN
          /\ remote' = IF calls > 0 /\ ok /\ remote.present
                       THEN MarketIncrement(remote, pur[p].req)
                       ELSE remote
          /\ pur' = [pur EXCEPT ![p] =
                       Respond([@ EXCEPT !.compensations = @ + calls],
                               "db_error", pur[p].quantity_before)]
    /\ UNCHANGED <<rows, rowLock, deleteCalls, envFaults, init0, restPurchase>>

\* The purchase variables while no purchase is modelled.
PurchaseIdle ==
    /\ rowLock = 0
    /\ pur = [p \in Buyers |-> IdleBuyer]
    /\ deleteCalls = 0
    /\ init0 = [q |-> 0, r |-> 0]

PurchaseAtRest ==
    /\ PurchaseIdle
    /\ envFaults = FALSE

InitPurchase ==
    /\ envFaults \in BOOLEAN
    /\ \E q \in Quantities, r \in Quantities :
          /\ rows = {StockRow(q)}
          /\ remote = IF r > 0 THEN [present |-> TRUE, quantity |-> r] ELSE NoProduct
          /\ init0 = [q |-> q, r |-> r]
    /\ rowLock = 0
    /\ pur = [p \in Buyers |-> IdleBuyer]
    /\ deleteCalls = 0
    /\ WebhookAtRest
    /\ BulkAtRest
    /\ KVAtRest

PurchaseStep(p) ==
        \/ PurchaseReserve(p)
        \/ PurchaseRelease(p)
        \/ PurchaseInsufSync(p)
        \/ PurchaseInsufWrite(p)
        \/ PurchaseCheck(p)
        \/ PurchaseRemoteInsufWrite(p)
        \/ PurchaseDecrement(p)
        \/ PurchaseDelete(p)
        \/ PurchaseCommit(p)
        \/ PurchaseCompensate(p)

NextPurchase == \E p \in Buyers : PurchaseStep(p)

SpecPurchase == InitPurchase /\ [][NextPurchase]_vars

(***************************************************************************)
(* Claims about the purchase saga.                                         *)
(***************************************************************************)
\* C1: with local quantity 1 and remote quantity 1, two concurrent purchases of
\* 1 unit each (no call failing) end with exactly one success reporting
\* quantity_after = 0, the other request answered insufficient quantity with 0
\* available, and the marketplace having received exactly one DELETE.
C1_ConcurrentLastUnit ==
    ( /\ init0 = [q |-> 1, r |-> 1]
      /\ ~envFaults
      /\ \A p \in {1, 2} : pur[p].pc = "done" /\ pur[p].req = 1
      /\ \A p \in Buyers \ {1, 2} : pur[p].pc = "idle" )
    => /\ \E p \in {1, 2} :
            /\ pur[p].status = "success"
            /\ pur[p].quantity_after = 0
            /\ pur[3 - p].status \in {"insufficient", "insufficient_remote"}
            /\ pur[3 - p].quantity_after = 0
       /\ deleteCalls = 1

\* C12: when the local commit fails after the remote step succeeded, exactly
\* one compensating increment is issued if the marketplace was decremented and
\* none if the product was deleted, it is never repeated, and the caller is
\* answered with an error; a purchase that committed issues none.
C12_CompensationOnCommitFailure ==
    \A p \in Buyers :
        /\ pur[p].compensations <= 1
        /\ (pur[p].pc = "done" /\ pur[p].remote_step # "none") =>
               IF pur[p].status = "success"
               THEN pur[p].compensations = 0
               ELSE /\ pur[p].status = "db_error"
                    /\ pur[p].remote_step = "decremented" => pur[p].compensations = 1
                    /\ pur[p].remote_step = "deleted" => pur[p].compensations = 0

\* Both cases of C12 have happened: a failed commit after a decrement and
\* another after a deletion.
C12_Witness ==
    /\ pur[1].pc = "done" /\ pur[1].status = "db_error"
    /\ pur[1].remote_step = "decremented" /\ pur[1].compensations = 1
    /\ pur[2].pc = "done" /\ pur[2].status = "db_error"
    /\ pur[2].remote_step = "deleted" /\ pur[2].compensations = 0

\* The positions of a request whose next step is a marketplace HTTP call:
\* check_product_availability (both paths), the decrement or the delete, and
\* the compensating increment.
RemoteCallSteps == {"insuf_sync", "check", "apply", "compensate"}

\* C20: no request issues a marketplace HTTP call while it holds the FOR
\* UPDATE lock of the item: whoever holds the lock is still inside the step-1
\* transaction, and every request about to call the marketplace, on the
\* insufficient-local path too, has released it.
C20_NoRemoteCallUnderLock ==
    /\ rowLock # 0 => pur[rowLock].pc = "locked"
    /\ \A p \in Buyers : pur[p].pc \in RemoteCallSteps => rowLock # p

\* C20 witness: after their reserve steps one request is about to refresh
\* from the marketplace on the insufficient-local path and another is about
\* to decrement or delete, and nobody holds the lock.
C20_Witness ==
    \E p, q \in Buyers :
        /\ pur[p].pc = "insuf_sync" /\ pur[p].quantity_before < pur[p].req
        /\ pur[q].pc = "apply" /\ pur[q].quantity_before >= pur[q].req
        /\ rowLock = 0

\* A purchase that ran with no other request overlapping it.
RanAlone(p) == \A o \in Buyers \ {p} : pur[o].pc = "idle"

\* C2: a purchase that returned success for n units, started with local
\* quantity q0 and remote quantity r0, has 0 < n <= min(q0, r0) and leaves the
\* local quantity at q0 - n and the remote quantity at r0 - n, the product
\* being deleted when r0 - n = 0.
C2_PurchaseConservation ==
    \A p \in Buyers :
        (pur[p].status = "success" /\ RanAlone(p)) =>
            LET n == pur[p].req IN
            /\ 0 < n /\ n <= init0.q /\ n <= init0.r
            /\ RowById(1).quantity = init0.q - n
            /\ remote = IF init0.r - n > 0
                        THEN [present |-> TRUE, quantity |-> init0.r - n]
                        ELSE NoProduct

\* A lone purchase succeeded by decrementing the marketplace's quantity.
C2_Witness ==
    \E p \in Buyers :
        /\ pur[p].status = "success" /\ RanAlone(p)
        /\ remote.present /\ remote.quantity = init0.r - pur[p].req

(***************************************************************************)
(* The webhook processor (services/webhook_processor.py).                  *)
(***************************************************************************)
\* select(UserInventoryItem).where(external_stock_id == str(product_id), user_id == ...)
RowsByExternal(rs, ext) == {r \in rs : r.external_stock_id = ext}

\* order.create: the quantity written for a sold item.
DecrementedQuantityUnclamped(old, quantity) == old - quantity

DecrementedQuantity(old, quantity) == Max(0, old - quantity)

\* order.destroy and cancelling order.update: the quantity written for an item.
RestoredQuantity(old, quantity) == old + quantity

\* The loop over order_items of _handle_order_create. An item with no
\* product_id or a quantity <= 0 is skipped; scalar_one_or_none finds the row,
\* finds none (an error is recorded) or raises on several (an error as well).
RECURSIVE DecrementOrderItems(_, _)
DecrementOrderItems(rs, items) ==
    IF items = <<>> THEN rs
    ELSE LET item == Head(items)
             found == RowsByExternal(rs, item.product_id)
         IN IF item.product_id = 0 \/ item.quantity <= 0 \/ Cardinality(found) # 1
            THEN DecrementOrderItems(rs, Tail(items))
            ELSE LET r == CHOOSE x \in found : TRUE
                 IN DecrementOrderItems(
                        SetQuantity(rs, r.id, DecrementedQuantity(r.quantity, item.quantity)),
                        Tail(items))

\* _restore_order_quantities: the same loop, adding the quantity back.
RECURSIVE RestoreOrderQuantities(_, _)
RestoreOrderQuantities(rs, items) ==
    IF items = <<>> THEN rs
    ELSE LET item == Head(items)
             found == RowsByExternal(rs, item.product_id)
         IN IF item.product_id = 0 \/ item.quantity <= 0 \/ Cardinality(found) # 1
            THEN RestoreOrderQuantities(rs, Tail(items))
            ELSE LET r == CHOOSE x \in found : TRUE
                 IN RestoreOrderQuantities(
                        SetQuantity(rs, r.id, RestoredQuantity(r.quantity, item.quantity)),
                        Tail(items))

\* The errors array of _handle_order_create, as the product ids it holds: an
\* item is recorded when its select finds no row or raises on several; a
\* skipped item is not.
RECURSIVE OrderCreateErrors(_, _)
OrderCreateErrors(rs, items) ==
    IF items = <<>> THEN <<>>
    ELSE LET item == Head(items)
             found == RowsByExternal(rs, item.product_id)
         IN IF item.product_id = 0 \/ item.quantity <= 0 \/ Cardinality(found) = 1
            THEN OrderCreateErrors(rs, Tail(items))
            ELSE <<item.product_id>> \o OrderCreateErrors(rs, Tail(items))

\* Every order.create decrements, whatever the order's state.
HandleOrderCreateAnyState(rs, order) == DecrementOrderItems(rs, order.order_items)

\* _handle_order_create: only a paid order changes the store.
HandleOrderCreate(rs, order) ==
    IF order.state # "paid" THEN rs ELSE DecrementOrderItems(rs, order.order_items)

\* _handle_order_update: a cancelled order, or one that left the paid state,
\* restores the quantities; any other change of state is ignored.
HandleOrderUpdate(rs, order) ==
    IF order.state \in {"canceled", "request_for_cancel"}
    THEN RestoreOrderQuantities(rs, order.order_items)
    ELSE IF order.previous_state = "paid" /\ order.state # "paid"
         THEN RestoreOrderQuantities(rs, order.order_items)
         ELSE rs

\* _handle_order_destroy: always restores.
HandleOrderDestroy(rs, order) == RestoreOrderQuantities(rs, order.order_items)

\* sync_products_from_cardtrader: a product whose row exists overwrites the
\* row's quantity; the create branch calls a method the mapper does not have,
\* the AttributeError is caught per product and no row is ever created.
RECURSIVE SyncProductsFromCardtrader(_, _)
SyncProductsFromCardtrader(rs, products) ==
    IF products = <<>> THEN rs
    ELSE LET product == Head(products)
             found == RowsByExternal(rs, product.id)
         IN IF Cardinality(found) # 1
            THEN SyncProductsFromCardtrader(rs, Tail(products))
            ELSE LET r == CHOOSE x \in found : TRUE
                 IN SyncProductsFromCardtrader(
                        SetQuantity(rs, r.id, product.quantity), Tail(products))

\* _update_product_quantity_async: the quantity written for a delta.
UpdatedQuantity(old_quantity, delta) == Max(0, old_quantity + delta)

(***************************************************************************)
(* _process_products_chunk (tasks/sync_tasks.py).                          *)
(***************************************************************************)
\* The catalogue behind batch_map_blueprint_ids: blueprint 1 maps to a card
\* table, blueprint 2 to the excluded One Piece table, any other to nothing.
BlueprintMapping(blueprint_id) ==
    CASE blueprint_id = 1 -> "mtg_prints"
      [] blueprint_id = 2 -> "op_prints"
      [] OTHER -> "none"

ProductKey(product) == <<product.blueprint_id, product.id>>

RowKey(r) == <<r.blueprint_id, r.external_stock_id>>

\* Step 1: products without blueprint_id or id are skipped.
ValidProducts(products) ==
    SelectSeq(products, LAMBDA product : ~(product.blueprint_id = 0 \/ product.id = 0))

\* Step 3: products whose blueprint has no mapping, or a One Piece one, are skipped.
ProductsToProcess(products) ==
    SelectSeq(ValidProducts(products),
              LAMBDA product : BlueprintMapping(product.blueprint_id) \notin {"none", "op_prints"})

\* Step 4: the batch SELECT, {(blueprint_id, external_stock_id): id}.
ExistingKeysNone(rs, products_to_process) == {}

ExistingKeys(rs, products_to_process) ==
    {[key |-> RowKey(r), id |-> r.id] :
        r \in {x \in rs : \E i \in DOMAIN products_to_process :
                              ProductKey(products_to_process[i]) = RowKey(x)}}

\* Step 5: the INSERT batch and the UPDATE batch.
ItemsToInsert(products_to_process, existing_keys) ==
    SelectSeq(products_to_process,
              LAMBDA product : ProductKey(product) \notin {e.key : e \in existing_keys})

ItemsToUpdate(products_to_process, existing_keys) ==
    SelectSeq(products_to_process,
              LAMBDA product : ProductKey(product) \in {e.key : e \in existing_keys})

\* uq_user_blueprint_external_stock: whether the bulk INSERT is refused.
UniqueViolationNever(rs, items) == FALSE

UniqueViolation(rs, items) ==
    \E i \in DOMAIN items :
        \/ \E r \in rs : RowKey(r) = ProductKey(items[i])
        \/ \E j \in DOMAIN items : j # i /\ ProductKey(items[j]) = ProductKey(items[i])

\* The id the store gives to the next inserted row.
NextId(rs) ==
    IF rs = {} THEN 1
    ELSE 1 + CHOOSE m \in {r.id : r \in rs} : \A r \in rs : r.id <= m

RECURSIVE InsertItems(_, _)
InsertItems(rs, items) ==
    IF items = <<>> THEN rs
    ELSE InsertItems(rs \cup {[id |-> NextId(rs),
                               blueprint_id |-> Head(items).blueprint_id,
                               external_stock_id |-> Head(items).id,
                               quantity |-> Head(items).quantity]},
                     Tail(items))

\* UPDATE ... WHERE id = existing_keys[key], one statement per product.
RECURSIVE UpdateItems(_, _, _)
UpdateItems(rs, items, existing_keys) ==
    IF items = <<>> THEN rs
    ELSE LET e == CHOOSE x \in existing_keys : x.key = ProductKey(Head(items))
         IN UpdateItems(SetQuantity(rs, e.id, Head(items).quantity),
                        Tail(items), existing_keys)

\* Steps 5 to 8 in the chunk's own session: a refused INSERT raises and the
\* session rolls back; otherwise the inserts and the updates commit together.
ChunkWrite(rs, products, existing_keys) ==
    LET to_process == ProductsToProcess(products)
        inserts == ItemsToInsert(to_process, existing_keys)
        updates == ItemsToUpdate(to_process, existing_keys)
        skipped == Len(products) - Len(to_process)
    IN IF UniqueViolation(rs, inserts)
       THEN [rows |-> rs, created |-> 0, updated |-> 0, skipped |-> 0, failed |-> TRUE]
       ELSE [rows |-> UpdateItems(InsertItems(rs, inserts), updates, existing_keys),
             created |-> Len(inserts), updated |-> Len(updates),
             skipped |-> skipped, failed |-> FALSE]

\* A chunk that no other transaction interleaves with.
ProcessProductsChunk(rs, products) ==
    ChunkWrite(rs, products, ExistingKeys(rs, ProductsToProcess(products)))

(***************************************************************************)
(* SpecInv: every writer of the quantity of item 1, in any order and        *)
(* interleaved with the steps of a purchase request.                       *)
(***************************************************************************)
OrderItems == [product_id : 0..(NumProducts + 1), quantity : (0 - 1)..MaxReq]

OrderStates == {"paid", "canceled", "sent"}

\* Orders of one item.
InvOrders(states, previous_states) ==
    [state : states, previous_state : previous_states,
     order_items : {<<item>> : item \in OrderItems}]

\* get_products_export as the marketplace holds product 1.
ExportOf(prod) ==
    IF prod.present
    THEN <<[id |-> 1, blueprint_id |-> 1, quantity |-> prod.quantity]>>
    ELSE <<>>

\* The model stores quantities up to MaxQty.
WithinBound(rs) == \A r \in rs : r.quantity <= MaxQty

Applied(op, arg) == [op |-> op, old |-> RowById(1).quantity, arg |-> arg]

restInv == <<remote, varsPurchase, whOrder, whPc, whBefore, whReq, varsBulk, varsKV>>

InvOrderCreate ==
    \E order \in InvOrders({"paid", "sent"}, {"none"}) :
        /\ rows' = HandleOrderCreate(rows, order)
        /\ lastOp' = Applied("order.create", order.order_items[1].quantity)
        /\ UNCHANGED restInv

InvOrderUpdate ==
    \E order \in InvOrders(OrderStates, {"paid", "none"}) :
        /\ rows' = HandleOrderUpdate(rows, order)
        /\ WithinBound(rows')
        /\ lastOp' = Applied("order.update", order.order_items[1].quantity)
        /\ UNCHANGED restInv

InvOrderDestroy ==
    \E order \in InvOrders({"canceled"}, {"none"}) :
        /\ rows' = HandleOrderDestroy(rows, order)
        /\ WithinBound(rows')
        /\ lastOp' = Applied("order.destroy", order.order_items[1].quantity)
        /\ UNCHANGED restInv

\* update_inventory_item: the request schema admits quantity >= 0 only.
UpdateInventoryItem ==
    \E quantity \in (0 - 1)..MaxQty :
        /\ quantity >= 0
        /\ HasRow(1)
        /\ rows' = SetQuantity(rows, 1, quantity)
        /\ lastOp' = Applied("update", quantity)
        /\ UNCHANGED restInv

\* update_product_quantity(user, external_stock_id, delta).
UpdateProductQuantity ==
    \E delta \in (0 - MaxReq)..MaxReq :
        /\ RowsByExternal(rows, 1) # {}
        /\ rows' = SetQuantity(rows, 1, UpdatedQuantity(RowById(1).quantity, delta))
        /\ WithinBound(rows')
        /\ lastOp' = Applied("update_product_quantity", delta)
        /\ UNCHANGED restInv

\* The periodic drift sync against the marketplace's export.
InvDriftSync ==
    /\ rows' = SyncProductsFromCardtrader(rows, ExportOf(remote))
    /\ lastOp' = Applied("drift_sync", 0)
    /\ UNCHANGED restInv

\* One bulk-sync chunk holding the marketplace's export.
InvBulkChunk ==
    /\ rows' = ProcessProductsChunk(rows, ExportOf(remote)).rows
    /\ lastOp' = Applied("bulk_sync", 0)
    /\ UNCHANGED restInv

\* A listing in sync with the marketplace, one purchase request to come.
InitInv ==
    /\ InitPurchase
    /\ init0.q = init0.r

NextInv ==
    \/ PurchaseStep(1)
    \/ InvOrderCreate
    \/ InvOrderUpdate
    \/ InvOrderDestroy
    \/ UpdateInventoryItem
    \/ UpdateProductQuantity
    \/ InvDriftSync
    \/ InvBulkChunk

SpecInv == InitInv /\ [][NextInv]_vars

\* C3: after any sequence and interleaving of purchases, inventory updates,
\* order webhooks, update_product_quantity, bulk sync and drift sync, every
\* stored item has quantity >= 0.
C3_QuantityNonNegative == \A r \in rows : r.quantity >= 0

\* An order.create webhook sold more than the item held and the item is at 0.
C3_Witness ==
    /\ lastOp.op = "order.create"
    /\ lastOp.old < lastOp.arg
    /\ RowById(1).quantity = 0

(***************************************************************************)
(* SpecWebhook: one order payload delivered as order.create and then as    *)
(* order.destroy, nothing else touching the store in between.              *)
(***************************************************************************)
\* Payloads of 1 to MaxItems order items; the same product may appear twice.
WebhookOrders ==
    [state : {"paid", "sent"}, previous_state : {"none"},
     order_items : UNION {[1..n -> OrderItems] : n \in 1..MaxItems}]

\* One inventory row per product of the user, with any stored quantity.
InventoryOf(qty) ==
    {[id |-> i, blueprint_id |-> 1, external_stock_id |-> i, quantity |-> qty[i]] :
        i \in ProductIds}

restWebhook == <<remote, varsPurchase, lastOp, whOrder, whReq, varsBulk, varsKV>>

\* process_webhook with cause order.create.
WebhookOrderCreate ==
    /\ whPc = "start"
    /\ whBefore' = rows
    /\ rows' = HandleOrderCreate(rows, whOrder)
    /\ whPc' = "created"
    /\ UNCHANGED restWebhook

\* process_webhook with cause order.destroy and the same payload.
WebhookOrderDestroy ==
    /\ whPc = "created"
    /\ rows' = HandleOrderDestroy(rows, whOrder)
    /\ whPc' = "destroyed"
    /\ UNCHANGED <<whBefore, restWebhook>>

InitWebhook ==
    /\ \E qty \in [ProductIds -> Quantities] : rows = InventoryOf(qty)
    /\ remote = NoProduct
    /\ PurchaseAtRest
    /\ lastOp = NoOp
    /\ whOrder \in WebhookOrders
    /\ whPc = "start"
    /\ whBefore = {}
    /\ whReq = NoRequest
    /\ BulkAtRest
    /\ KVAtRest

NextWebhook ==
    \/ WebhookOrderCreate
    \/ WebhookOrderDestroy

SpecWebhook == InitWebhook /\ [][NextWebhook]_vars

\* C8: after an order.create webhook of a paid order and an order.destroy
\* webhook with the same payload, every item has the quantity it had before
\* the order.create, for every initial quantity and every ordered quantity.
C8_CreateThenDestroyRestores ==
    (whPc = "destroyed" /\ whOrder.state = "paid") => rows = whBefore

\* The order items of a payload that satisfy a condition on the item.
ItemsWhere(items, Cond(_)) == {i \in DOMAIN items : Cond(items[i])}

\* The sum of the quantities of the order items at the positions in idx.
RECURSIVE TotalQuantity(_, _)
TotalQuantity(items, idx) ==
    IF idx = {} THEN 0
    ELSE LET i == CHOOSE j \in idx : TRUE
         IN items[i].quantity + TotalQuantity(items, idx \ {i})

\* The response's errors array after the order.create of whOrder.
CreateErrors == OrderCreateErrors(whBefore, whOrder.order_items)

\* What C31 says of the order.create just processed, for the order items
\* that satisfy Counted: a row holds max(0, quantity - sold) for the sold
\* quantities of the items naming it, and the errors are the items naming
\* no row.
CreateApplied(Counted(_)) ==
    LET items == whOrder.order_items
        Names(ext) == ItemsWhere(items, LAMBDA it : Counted(it) /\ it.product_id = ext)
        Missing == ItemsWhere(items,
                       LAMBDA it : Counted(it) /\ RowsByExternal(whBefore, it.product_id) = {})
    IN /\ \A r \in whBefore :
              [r EXCEPT !.quantity =
                   Max(0, r.quantity - TotalQuantity(items, Names(r.external_stock_id)))]
                  \in rows
       /\ Cardinality(rows) = Cardinality(whBefore)
       /\ Len(CreateErrors) = Cardinality(Missing)
       /\ \A i \in Missing : \E k \in DOMAIN CreateErrors : CreateErrors[k] = items[i].product_id

\* C31 as stated: an order.create of an order that is not paid changes no
\* quantity; of a paid order, every order item naming a local item leaves it
\* with max(0, quantity - item_qty) and every order item naming none is in
\* the errors array, the other items being applied all the same.
C31_OrderCreateAppliesEveryItem ==
    whPc = "created" =>
        IF whOrder.state # "paid" THEN rows = whBefore
        ELSE CreateApplied(LAMBDA it : TRUE)

\* C31, amended: the same for the order items that carry a product_id and a
\* quantity of at least 1; the other items are skipped: they change nothing
\* and are not recorded in the errors array.
C31_OrderCreateAppliesSoldItems ==
    whPc = "created" =>
        IF whOrder.state # "paid" THEN rows = whBefore
        ELSE CreateApplied(LAMBDA it : it.product_id # 0 /\ it.quantity >= 1)

\* C31 witness: a paid order naming an unknown product first and a stocked
\* item second: the first is in the errors array, the second was decremented.
C31_Witness ==
    /\ whPc = "created"
    /\ whOrder.state = "paid"
    /\ Len(whOrder.order_items) = 2
    /\ RowsByExternal(whBefore, whOrder.order_items[1].product_id) = {}
    /\ CreateErrors = <<whOrder.order_items[1].product_id>>
    /\ whOrder.order_items[2].quantity >= 1
    /\ \E r \in whBefore :
          /\ r.external_stock_id = whOrder.order_items[2].product_id
          /\ r.quantity >= 1
          /\ r \notin rows

(***************************************************************************)
(* SpecBulk: initial_bulk_sync (tasks/sync_tasks.py), started through      *)
(* start_sync. SpecKeys adds the other writers of the user's rows.         *)
(***************************************************************************)
PARALLEL_CHUNKS == 3

\* total_chunks and chunks[i - 1] of _initial_bulk_sync_async.
TotalChunks(products) == (Len(products) + CHUNK_SIZE - 1) \div CHUNK_SIZE

Chunk(products, i) ==
    SubSeq(products, (i - 1) * CHUNK_SIZE + 1, Min(i * CHUNK_SIZE, Len(products)))

\* The chunks asyncio.gather runs together in the task's current batch.
BatchChunks(task) ==
    {i \in 1..TotalChunks(task.products) :
        task.batch_start < i /\ i <= task.batch_start + PARALLEL_CHUNKS}

\* The marketplace's exports: product ids are unique, a product may lack its
\* id or its blueprint_id (0), blueprints are mapped, One Piece or unmapped.
ExportProducts == [id : 0..MaxProducts, blueprint_id : 0..3, quantity : {MaxQty}]

Exports ==
    UNION {{f \in [1..n -> ExportProducts] : \A i \in 1..n : f[i].id \in {0, i}} :
              n \in 0..MaxProducts}

\* An export whose products all have an id and a mapped blueprint.
PlainExport(products) ==
    \A i \in DOMAIN products : products[i].id # 0 /\ products[i].blueprint_id = 1

\* The outcomes of get_products_export.
FetchOutcomes == IF envFaults THEN {"ok", "rate_limited", "error"} ELSE {"ok"}

restBulk == <<remote, varsPurchase, varsWebhook, varsKV, startReq, upd>>

\* The values enc.decrypt gives start_sync: "error" stands for a decrypt that
\* raises, "" and " " for an empty and a blank token.
Tokens == {"error", "", " ", "tok"}

\* token.strip()
Strip(token) == IF token = " " THEN "" ELSE token

\* start_sync's answer: SYNC_NOT_FOUND without settings, 400 when the token
\* does not decrypt or is empty, SYNC_IN_PROGRESS when not forced and the
\* status is initial_sync or active, else "accepted".
StartSyncAnswer(has_settings, token, force, status_value) ==
    IF ~has_settings THEN "SYNC_NOT_FOUND"
    ELSE IF token = "error" \/ token = "" \/ Strip(token) = "" THEN "400"
    ELSE IF ~force /\ status_value \in {"initial_sync", "active"}
         THEN "SYNC_IN_PROGRESS"
         ELSE "accepted"

\* start_sync of a linked user when the answer is "accepted":
\* initial_bulk_sync.delay queues the task.
StartSync(t) ==
    /\ tasks[t].pc = "none"
    /\ \A u \in TaskIds : u < t => tasks[u].pc # "none"
    /\ \E force \in BOOLEAN :
          StartSyncAnswer(TRUE, "tok", force, syncStatus) = "accepted"
    /\ tasks' = [tasks EXCEPT ![t].pc = "queued"]
    /\ UNCHANGED <<rows, export, syncStatus, settings, operations, restBulk>>

\* initial_bulk_sync: INSERT ... 'bulk_sync', 'pending' ON CONFLICT DO NOTHING;
\* a failure is logged and the task goes on.
PreCreateOperation(t) ==
    /\ tasks[t].pc = "queued"
    /\ \E ok \in Outcomes :
          operations' = IF ok /\ operations[t].status = "none"
                        THEN [operations EXCEPT ![t].status = "pending",
                                                ![t].operation_type = "bulk_sync"]
                        ELSE operations
    /\ tasks' = [tasks EXCEPT ![t].pc = "precreated",
                              ![t].after = {u \in TaskIds : tasks[u].pc = "done"}]
    /\ UNCHANGED <<rows, export, syncStatus, settings, restBulk>>

\* _initial_bulk_sync_async: sync_status := INITIAL_SYNC is committed, then the
\* task's SyncOperation row is loaded (None when there is none).
BeginSync(t) ==
    /\ tasks[t].pc = "precreated"
    /\ syncStatus' = "initial_sync"
    /\ settings' = settings
    /\ tasks' = [tasks EXCEPT ![t].pc = "export",
                              ![t].sync_op = (operations[t].status # "none")]
    /\ UNCHANGED <<rows, export, operations, restBulk>>

\* The except branches of a failed run: sync_status := ERROR with last_error
\* is written through the async session, and when that fails through the
\* synchronous engine (again by the task's wrapper for an error that is not
\* retried); when every write fails the status stays as it was.
ErrorStatus(current, async_ok, sync_ok) ==
    IF async_ok \/ sync_ok THEN "error" ELSE current

ErrorSettings(current, async_ok, sync_ok) ==
    IF async_ok \/ sync_ok THEN [current EXCEPT !.last_error = TRUE] ELSE current

\* get_products_export. Any exception sets sync_status to ERROR; a
\* RateLimitError makes Celery retry the task, another error ends it.
FetchExport(t) ==
    /\ tasks[t].pc = "export"
    /\ \E outcome \in FetchOutcomes, async_ok \in Outcomes, sync_ok \in Outcomes :
          IF outcome = "ok"
          THEN /\ tasks' = [tasks EXCEPT ![t] = [@ EXCEPT
                              !.pc = "chunks", !.products = export, !.batch_start = 0,
                              !.chunk_pc = [i \in 1..TotalChunks(export) |-> "todo"],
                              !.existing = [i \in 1..TotalChunks(export) |-> {}],
                              !.created = 0, !.updated = 0, !.skipped = 0]]
               /\ syncStatus' = syncStatus
               /\ settings' = settings
          ELSE /\ syncStatus' = ErrorStatus(syncStatus, async_ok, sync_ok)
               /\ settings' = ErrorSettings(settings, async_ok, sync_ok)
               /\ tasks' = [tasks EXCEPT ![t] =
                    IF outcome = "rate_limited" /\ @.retries < MaxRetries
                    THEN [@ EXCEPT !.pc = "queued", !.retries = @ + 1]
                    ELSE [@ EXCEPT !.pc = "failed"]]
    /\ UNCHANGED <<rows, export, operations, restBulk>>

\* _process_products_chunk, step 4: the batch SELECT of the existing keys.
ChunkSelect(t, i) ==
    /\ tasks[t].pc = "chunks"
    /\ i \in BatchChunks(tasks[t])
    /\ tasks[t].chunk_pc[i] = "todo"
    /\ tasks' = [tasks EXCEPT ![t].chunk_pc[i] = "selected",
                              ![t].existing[i] =
                                  ExistingKeys(rows, ProductsToProcess(Chunk(tasks[t].products, i)))]
    /\ UNCHANGED <<rows, export, syncStatus, settings, operations, restBulk>>

\* _process_products_chunk, steps 5 to 8: INSERT, UPDATE and commit. A refused
\* INSERT raises through asyncio.gather: sync_status becomes ERROR, the task ends.
ChunkCommit(t, i) ==
    /\ tasks[t].pc = "chunks"
    /\ i \in BatchChunks(tasks[t])
    /\ tasks[t].chunk_pc[i] = "selected"
    /\ \E async_ok \in Outcomes, sync_ok \in Outcomes :
       LET res == ChunkWrite(rows, Chunk(tasks[t].products, i), tasks[t].existing[i])
       IN IF res.failed
          THEN /\ rows' = rows
               /\ syncStatus' = ErrorStatus(syncStatus, async_ok, sync_ok)
               /\ settings' = ErrorSettings(settings, async_ok, sync_ok)
               /\ tasks' = [tasks EXCEPT ![t].pc = "failed"]
          ELSE /\ rows' = res.rows
               /\ syncStatus' = syncStatus
               /\ settings' = settings
               /\ tasks' = [tasks EXCEPT ![t] = [@ EXCEPT
                              !.chunk_pc[i] = "done",
                              !.created = @ + res.created,
                              !.updated = @ + res.updated,
                              !.skipped = @ + res.skipped]]
    /\ UNCHANGED <<export, operations, restBulk>>

\* After a batch: the progress metadata is written to the task's SyncOperation
\* (when it was found) and committed.
CommitProgress(t) ==
    /\ tasks[t].pc = "chunks"
    /\ BatchChunks(tasks[t]) # {}
    /\ \A i \in BatchChunks(tasks[t]) : tasks[t].chunk_pc[i] = "done"
    /\ LET processed == tasks[t].batch_start + Cardinality(BatchChunks(tasks[t]))
       IN /\ operations' =
                IF tasks[t].sync_op
                THEN [operations EXCEPT ![t] = [@ EXCEPT
                        !.progress = TRUE,
                        !.total_chunks = TotalChunks(tasks[t].products),
                        !.processed_chunks = processed,
                        !.progress_percent =
                            (processed * 100) \div TotalChunks(tasks[t].products),
                        !.created = tasks[t].created, !.updated = tasks[t].updated]]
                ELSE operations
          /\ tasks' = [tasks EXCEPT ![t].batch_start = processed]
    /\ UNCHANGED <<rows, export, syncStatus, settings, restBulk>>

\* The SyncOperation as the completion writes it: status completed, and a
\* new metadata dict with the totals only.
CompletedOperationStillPending(op, task) ==
    [op EXCEPT !.progress = FALSE, !.total_chunks = 0, !.processed_chunks = 0,
               !.progress_percent = 0,
               !.created = task.created, !.updated = task.updated]

CompletedOperation(op, task) ==
    [op EXCEPT !.status = "completed", !.progress = FALSE, !.total_chunks = 0,
               !.processed_chunks = 0, !.progress_percent = 0,
               !.created = task.created, !.updated = task.updated]

\* Completion: sync_status := ACTIVE, last_sync_at set, last_error NULL, and
\* the SyncOperation (when it was found) completed, in one commit.
CompleteSync(t) ==
    /\ tasks[t].pc = "chunks"
    /\ tasks[t].batch_start >= TotalChunks(tasks[t].products)
    /\ syncStatus' = "active"
    /\ settings' = [last_error |-> FALSE, last_sync_at |-> TRUE]
    /\ operations' =
          IF tasks[t].sync_op
          THEN [operations EXCEPT ![t] = CompletedOperation(@, tasks[t])]
          ELSE operations
    /\ tasks' = [tasks EXCEPT ![t].pc = "done"]
    /\ UNCHANGED <<rows, export, restBulk>>

\* delete_inventory_item: the row is deleted and the deletion committed.
DeleteInventoryItem ==
    \E r \in rows :
        /\ rows' = rows \ {r}
        /\ UNCHANGED <<export, syncStatus, settings, operations, tasks, restBulk>>

\* update_inventory_item on any row, here with quantity 0: no key column is
\* written.
BulkUpdateItem ==
    \E r \in rows, quantity \in {0} :
        /\ rows' = SetQuantity(rows, r.id, quantity)
        /\ UNCHANGED <<export, syncStatus, settings, operations, tasks, restBulk>>

\* The periodic drift sync against the same export.
BulkDriftSync ==
    /\ rows' = SyncProductsFromCardtrader(rows, export)
    /\ UNCHANGED <<export, syncStatus, settings, operations, tasks, restBulk>>

\* A user with no rows yet and no sync started. Failing calls are explored
\* against the plain exports, every export against calls that succeed.
InitBulk ==
    /\ rows = {}
    /\ remote = NoProduct
    /\ PurchaseIdle
    /\ envFaults \in BOOLEAN
    /\ WebhookAtRest
    /\ export \in Exports
    /\ envFaults => PlainExport(export)
    /\ syncStatus = "idle"
    /\ settings = NoSettings
    /\ operations = [t \in TaskIds |-> NoOperation]
    /\ startReq = NoStart
    /\ upd = NoUpdates
    /\ tasks = [t \in TaskIds |-> NoTask]
    /\ KVAtRest

BulkStep(t) ==
    \/ StartSync(t)
    \/ PreCreateOperation(t)
    \/ BeginSync(t)
    \/ FetchExport(t)
    \/ \E i \in 1..MaxProducts : ChunkSelect(t, i)
    \/ \E i \in 1..MaxProducts : ChunkCommit(t, i)
    \/ CommitProgress(t)
    \/ CompleteSync(t)

NextBulk == \E t \in TaskIds : BulkStep(t)

SpecBulk == InitBulk /\ [][NextBulk]_vars

\* SpecKeys: exports whose products all have an id and a mapped blueprint, no
\* failing call, and every writer of the rows.
InitKeys ==
    /\ InitBulk
    /\ ~envFaults
    /\ PlainExport(export)

NextKeys ==
    \/ \E t \in TaskIds : BulkStep(t)
    \/ DeleteInventoryItem
    \/ BulkUpdateItem
    \/ BulkDriftSync

SpecKeys == InitKeys /\ [][NextKeys]_vars

\* C4: no user has two inventory rows with the same
\* (blueprint_id, external_stock_id), whatever bulk-sync chunks, drift syncs,
\* updates and deletes ran and however they interleaved.
C4_NoDuplicateKeys ==
    \A r1 \in rows, r2 \in rows : RowKey(r1) = RowKey(r2) => r1 = r2

\* C5: while sync_status is INITIAL_SYNC, a bulk_sync Operation with status
\* pending exists for the user.
C5_InitialSyncHasPendingOperation ==
    syncStatus = "initial_sync" => \E t \in TaskIds : operations[t].status = "pending"

\* A refused INSERT ended a task while the user has rows.
C4_Witness == \E t \in TaskIds : tasks[t].pc = "failed" /\ rows # {}

\* C9: a bulk sync that runs after another one completed, against the same
\* export, completes reporting created = 0 and inserts no row: every product
\* the first run created or updated is counted as updated.
C9_SecondRunCreatesNothing ==
    \A t \in TaskIds :
        (~envFaults /\ tasks[t].after # {} /\ tasks[t].pc \in {"done", "failed"}) =>
            /\ tasks[t].pc = "done"
            /\ tasks[t].created = 0
            /\ \A u \in tasks[t].after :
                  /\ tasks[t].updated = tasks[u].created + tasks[u].updated
                  /\ Cardinality(rows) = tasks[u].created

\* A second run completed and counted a product as updated.
C9_Witness ==
    \E t \in TaskIds :
        /\ ~envFaults /\ tasks[t].after # {} /\ tasks[t].pc = "done"
        /\ tasks[t].updated > 0

\* get_task_status: the poll of task t by its owner is answered only when a
\* SyncOperation with that operation_id is found; otherwise 403.
TaskStatusAuthorized(t) == operations[t].status # "none"

\* C13: once a task's id has been returned to the caller, an Operation row
\* with that id exists, so a status poll by the owner is authorized at any
\* time from then on, and the row is there before the task body runs.
C13_PreRegistered ==
    \A t \in TaskIds : tasks[t].pc # "none" => TaskStatusAuthorized(t)

\* C15: a bulk sync that failed for good has left sync_status at ERROR (as
\* long as no other run has touched it) and its Operation in status failed.
C15_FailedRunRecorded ==
    \A t \in TaskIds :
        tasks[t].pc = "failed" =>
            /\ operations[t].status = "failed"
            /\ (\A u \in TaskIds \ {t} : tasks[u].pc = "none") =>
                   (syncStatus = "error" /\ settings.last_error)

\* C16: the step that completes a run makes sync_status ACTIVE with
\* last_sync_at set and last_error NULL and completes the run's pending
\* Operation, all at once; an Operation is never completed in any other step.
C16_CompletionAtomic ==
    [][\A t \in TaskIds :
          /\ (tasks[t].pc # "done" /\ tasks'[t].pc = "done") =>
                 /\ syncStatus' = "active"
                 /\ settings' = [last_error |-> FALSE, last_sync_at |-> TRUE]
                 /\ operations[t].status = "pending" =>
                        operations'[t].status = "completed"
          /\ (operations[t].status # "completed" /\ operations'[t].status = "completed") =>
                 /\ tasks[t].pc # "done" /\ tasks'[t].pc = "done"
                 /\ syncStatus' = "active"]_vars

\* A run has completed: its Operation is completed and the user is ACTIVE.
C16_Witness ==
    \E t \in TaskIds :
        /\ tasks[t].pc = "done"
        /\ operations[t].status = "completed"
        /\ syncStatus = "active"
        /\ settings = [last_error |-> FALSE, last_sync_at |-> TRUE]

\* get_sync_progress: the user's SyncOperation rows it selects, by type.
ProgressOperations ==
    {t \in TaskIds : /\ operations[t].status # "none"
                     /\ operations[t].operation_type = "initial_bulk_sync"}

\* get_sync_progress: the answer built from the most recent selected row (the
\* rows are created in the order of the task ids), each number read with
\* metadata.get(key, 0).
GetSyncProgress ==
    IF ProgressOperations = {}
    THEN [status |-> "no_sync_found", progress_percent |-> 0,
          total_chunks |-> 0, processed_chunks |-> 0]
    ELSE LET t == CHOOSE x \in ProgressOperations : \A y \in ProgressOperations : y <= x
             op == operations[t]
         IN [status |-> op.status,
             progress_percent |-> IF op.progress THEN op.progress_percent ELSE 0,
             total_chunks |-> IF op.progress THEN op.total_chunks ELSE 0,
             processed_chunks |-> IF op.progress THEN op.processed_chunks ELSE 0]

\* C17: after the user's only bulk sync has completed over an export of N > 0
\* products, the progress endpoint reports processed_chunks = total_chunks =
\* ceil(N / CHUNK_SIZE) and progress_percent = 100.
C17_ProgressAfterCompletion ==
    \A t \in TaskIds :
        ( /\ tasks[t].pc = "done"
          /\ operations[t].status = "completed"
          /\ Len(tasks[t].products) > 0
          /\ \A u \in TaskIds \ {t} : tasks[u].pc = "none" )
        => /\ GetSyncProgress.processed_chunks = TotalChunks(tasks[t].products)
           /\ GetSyncProgress.total_chunks = TotalChunks(tasks[t].products)
           /\ GetSyncProgress.progress_percent = 100

(***************************************************************************)
(* The adaptive factor (services/adaptive_rate_limiter.py). Factors are    *)
(* fixed-point numbers in units of 1/FactorScale, products rounded down.   *)
(***************************************************************************)
FactorScale == 200

\* min_factor = 0.5, max_factor = 1.5 and the default 1.0.
MinFactor == FactorScale \div 2

MaxFactor == (3 * FactorScale) \div 2

BaseFactor == FactorScale

\* _get_adaptive_factor: 1.0 when the key is absent.
GetAdaptiveFactor(f) == IF f.present THEN f.value ELSE BaseFactor

\* record_429_response: max(min_factor, current_factor * 0.9).
ReducedFactorUnclamped(current_factor) == (current_factor * 9) \div 10

ReducedFactor(current_factor) == Max(MinFactor, (current_factor * 9) \div 10)

\* record_success: min(max_factor, current_factor * 1.01).
IncreasedFactor(current_factor) == Min(MaxFactor, (current_factor * 101) \div 100)

restFactorKV ==
    <<rows, remote, varsPurchase, varsWebhook, varsBulk, now, kvUp, bucket, sinceRefill,
      varsBreaker, rq>>

restFactor == <<restFactorKV, notified>>

\* record_429_response: the 429 counter and timestamp are stored.
Record429Stats(w) ==
    /\ lim[w].pc = "idle"
    /\ recent429' = TRUE
    /\ lim' = [lim EXCEPT ![w] = [@ EXCEPT !.pc = "r429_get", !.op = "record_429"]]
    /\ UNCHANGED <<factor, restFactor>>

\* record_429_response: current_factor = _get_adaptive_factor(user_id).
Record429Get(w) ==
    /\ lim[w].pc = "r429_get"
    /\ lim' = [lim EXCEPT ![w] = [@ EXCEPT !.pc = "r429_set",
                                           !.current_factor = GetAdaptiveFactor(factor)]]
    /\ UNCHANGED <<factor, recent429, restFactor>>

\* record_429_response: _set_adaptive_factor(user_id, new_factor).
Record429Set(w) ==
    /\ lim[w].pc = "r429_set"
    /\ factor' = [present |-> TRUE, value |-> ReducedFactor(lim[w].current_factor)]
    /\ notified' = IF notified.tracked THEN [notified EXCEPT !.count = @ + 1]
                   ELSE notified
    /\ lim' = [lim EXCEPT ![w] = IdleCaller]
    /\ UNCHANGED <<recent429, restFactorKV>>

\* record_success: the success counter is stored and the recent 429s counted;
\* with any 429 in the last 5 minutes the factor is left alone.
RecordSuccessStats(w) ==
    /\ lim[w].pc = "idle"
    /\ lim' = [lim EXCEPT ![w] =
                 IF recent429 THEN IdleCaller
                 ELSE [@ EXCEPT !.pc = "rs_get", !.op = "record_success"]]
    /\ UNCHANGED <<factor, recent429, restFactor>>

\* record_success: current_factor is read; only a factor below 1.0 is raised.
RecordSuccessGet(w) ==
    /\ lim[w].pc = "rs_get"
    /\ lim' = [lim EXCEPT ![w] =
                 IF GetAdaptiveFactor(factor) < BaseFactor
                 THEN [@ EXCEPT !.pc = "rs_set",
                                !.current_factor = GetAdaptiveFactor(factor)]
                 ELSE IdleCaller]
    /\ UNCHANGED <<factor, recent429, restFactor>>

\* record_success: _set_adaptive_factor(user_id, new_factor).
RecordSuccessSet(w) ==
    /\ lim[w].pc = "rs_set"
    /\ factor' = [present |-> TRUE, value |-> IncreasedFactor(lim[w].current_factor)]
    /\ lim' = [lim EXCEPT ![w] = IdleCaller]
    /\ UNCHANGED <<recent429, restFactor>>

\* The factor key's TTL (stats_window) runs out.
FactorExpires ==
    /\ factor.present
    /\ factor' = NoFactor
    /\ UNCHANGED <<recent429, lim, restFactor>>

\* The stored 429 timestamps grow older than 5 minutes.
Recent429sAge ==
    /\ recent429
    /\ recent429' = FALSE
    /\ UNCHANGED <<factor, lim, restFactor>>

\* reset_user: every key of the user is deleted.
ResetUser ==
    /\ factor' = NoFactor
    /\ recent429' = FALSE
    /\ UNCHANGED <<lim, restFactor>>

InitFactor ==
    /\ rows = {}
    /\ remote = NoProduct
    /\ PurchaseAtRest
    /\ WebhookAtRest
    /\ BulkAtRest
    /\ KVAtRest

FactorStep(w) ==
    \/ Record429Stats(w)
    \/ Record429Get(w)
    \/ Record429Set(w)
    \/ RecordSuccessStats(w)
    \/ RecordSuccessGet(w)
    \/ RecordSuccessSet(w)

NextFactor ==
    \/ \E w \in Workers : FactorStep(w)
    \/ FactorExpires
    \/ Recent429sAge
    \/ ResetUser

SpecFactor == InitFactor /\ [][NextFactor]_vars

\* C6: after any sequence of record_429_response and record_success calls the
\* user's adaptive factor is within [0.5, 1.5], an absent factor counting as 1.0.
C6_FactorWithinBounds ==
    /\ MinFactor <= GetAdaptiveFactor(factor)
    /\ GetAdaptiveFactor(factor) <= MaxFactor

\* Repeated 429 responses brought the stored factor down to the minimum.
C6_Witness == factor.present /\ factor.value = MinFactor

(***************************************************************************)
(* SpecLimiter: check_and_consume, called on its own ("acquire") or from   *)
(* the client's _make_request ("request"), with a Redis server that may    *)
(* stop answering.                                                         *)
(***************************************************************************)
\* effective_limit = int(base_requests * adaptive_factor).
EffectiveLimit(adaptive_factor) == (BaseRequests * adaptive_factor) \div FactorScale

\* The script without its "enough tokens" test: every call is allowed.
LuaConsumeUnchecked(b, max_tokens, window_seconds, t, tokens_to_consume) ==
    LET fresh == ~b.present \/ t >= b.refill_time
        current_tokens == IF fresh THEN max_tokens ELSE b.tokens
        refill_time == IF fresh THEN t + window_seconds * TicksPerSecond
                       ELSE b.refill_time
    IN [bucket |-> [present |-> TRUE, tokens |-> current_tokens - tokens_to_consume,
                    refill_time |-> refill_time],
        allowed |-> TRUE, wait_seconds |-> 0]

\* The Lua script of check_and_consume, run atomically by the server; t is
\* the caller's clock, read before the EVAL is sent.  t, refill_time and the
\* script's wait_seconds are held in ticks.
LuaConsume(b, max_tokens, window_seconds, t, tokens_to_consume) ==
    LET fresh == ~b.present \/ t >= b.refill_time
        current_tokens == IF fresh THEN max_tokens ELSE b.tokens
        refill_time == IF fresh THEN t + window_seconds * TicksPerSecond
                       ELSE b.refill_time
    IN IF current_tokens >= tokens_to_consume
       THEN [bucket |-> [present |-> TRUE, tokens |-> current_tokens - tokens_to_consume,
                         refill_time |-> refill_time],
             allowed |-> TRUE, wait_seconds |-> 0]
       ELSE [bucket |-> b, allowed |-> FALSE,
             wait_seconds |-> Max(0, refill_time - t)]

\* circuit_breaker.get_state(): CLOSED when the key is absent or expired.
BreakerState == IF brState.value = "none" \/ now >= brState.expires
                THEN "CLOSED" ELSE brState.value

\* redis.get(".. :opened_at") of a key written with setex(timeout).
OpenedAtPresent == now < brOpenedAt.expires

\* should_attempt_reset, after its get_state: no record allows the reset.
ShouldAttemptReset ==
    IF ~OpenedAtPresent THEN TRUE ELSE now - brOpenedAt.at >= BreakerTimeout

\* set_state: setex(state key, timeout * 2, value).
SetState(value) == [value |-> value, expires |-> now + 2 * BreakerTimeout]

\* The error _make_request raises when the breaker is OPEN and no reset is
\* due: RateLimitError("... Circuit breaker is OPEN ..."), the class it also
\* raises when the rate limit is exceeded.
OpenBreakerError == "rate_limit_error"

restLimiterKV ==
    <<rows, remote, varsPurchase, varsWebhook, varsBulk, factor, recent429, notified,
      varsCircuit, rq>>

restLimiter == <<restLimiterKV, varsBreaker>>

\* A direct call of check_and_consume(user_id).
AcquireStart(w) ==
    /\ lim[w].pc = "idle"
    /\ lim' = [lim EXCEPT ![w] = [@ EXCEPT !.pc = "cc_factor", !.op = "acquire"]]
    /\ UNCHANGED <<now, kvUp, bucket, sinceRefill, restLimiter>>

\* _make_request is entered.
RequestStart(w) ==
    /\ lim[w].pc = "idle"
    /\ lim' = [lim EXCEPT ![w] = [@ EXCEPT !.pc = "get_state", !.op = "request"]]
    /\ UNCHANGED <<now, kvUp, bucket, sinceRefill, restLimiter>>

\* _make_request: circuit_breaker.get_state(), a Redis GET outside any try.
\* When the state is OPEN, should_attempt_reset decides between raising and
\* set_state(HALF_OPEN).  breaker_open records that the breaker was OPEN and
\* had been opened less than the timeout before.
RequestGetState(w) ==
    /\ lim[w].pc = "get_state"
    /\ IF ~kvUp
       THEN /\ lim' = [lim EXCEPT ![w] = [@ EXCEPT !.pc = "done", !.outcome = "raised"]]
            /\ UNCHANGED <<brState, halfOpened>>
       ELSE IF BreakerState # "OPEN"
       THEN /\ lim' = [lim EXCEPT ![w] =
                         [@ EXCEPT !.pc = "cc_factor", !.kv_answered = TRUE]]
            /\ UNCHANGED <<brState, halfOpened>>
       ELSE IF ~ShouldAttemptReset
       THEN /\ lim' = [lim EXCEPT ![w] =
                         [@ EXCEPT !.pc = "done", !.kv_answered = TRUE,
                                   !.outcome = OpenBreakerError,
                                   !.breaker_open = now - lastOpened.at < BreakerTimeout]]
            /\ UNCHANGED <<brState, halfOpened>>
       ELSE /\ lim' = [lim EXCEPT ![w] =
                         [@ EXCEPT !.pc = "cc_factor", !.kv_answered = TRUE,
                                   !.breaker_open = now - lastOpened.at < BreakerTimeout]]
            /\ brState' = SetState("HALF_OPEN")
            /\ halfOpened' = [ever |-> TRUE, elapsed |-> now - lastOpened.at, oks |-> 0]
    /\ UNCHANGED <<now, kvUp, bucket, sinceRefill, restLimiterKV, brOpenedAt,
                   brFailures, brk, lastOpened>>

\* check_and_consume: _get_adaptive_factor(user_id), a Redis GET before the
\* try, then now = time.time().
CheckGetFactor(w) ==
    /\ lim[w].pc = "cc_factor"
    /\ lim' = [lim EXCEPT ![w] =
                 IF kvUp
                 THEN [@ EXCEPT !.pc = "cc_eval", !.kv_answered = TRUE, !.now = now,
                                !.current_factor = GetAdaptiveFactor(factor),
                                !.effective_limit = EffectiveLimit(GetAdaptiveFactor(factor))]
                 ELSE [@ EXCEPT !.pc = "done", !.outcome = "raised"]]
    /\ UNCHANGED <<now, kvUp, bucket, sinceRefill, restLimiter>>

\* The script's number wait_seconds as the server replies it and as
\* check_and_consume returns it: Lua numbers are replied as integers, the
\* fraction dropped, and a reply that is not > 0 becomes None (0 here).
ReturnedWait(wait_ticks) == wait_ticks \div TicksPerSecond

\* Where the caller goes with the result of check_and_consume: a direct call
\* returns; _wait_for_rate_limit sleeps once when refused with a wait, raises
\* RateLimitError when refused again, and otherwise lets the request go on.
AfterCheck(c, allowed, wait_seconds) ==
    IF c.op = "acquire"
    THEN [c EXCEPT !.pc = "done", !.outcome = "returned",
                   !.allowed = allowed, !.wait_seconds = wait_seconds]
    ELSE IF c.second
         THEN IF allowed
              THEN [c EXCEPT !.pc = "send", !.allowed = allowed, !.wait_seconds = wait_seconds]
              ELSE [c EXCEPT !.pc = "done", !.outcome = "rate_limit_error",
                             !.allowed = allowed, !.wait_seconds = wait_seconds]
         ELSE IF ~allowed /\ wait_seconds # 0
              THEN [c EXCEPT !.pc = "sleep", !.wake = now + wait_seconds * TicksPerSecond,
                             !.allowed = allowed, !.wait_seconds = wait_seconds]
              ELSE [c EXCEPT !.pc = "send", !.allowed = allowed, !.wait_seconds = wait_seconds]

\* What an answered EVAL does to the record of the last refill: a stored
\* bucket with a new refill_time starts a new count under the caller's
\* max_tokens, an allowed call without a refill adds one to the count.
SinceRefill(h, b, res, max_tokens) ==
    IF ~res.allowed THEN h
    ELSE IF ~b.present \/ res.bucket.refill_time # b.refill_time
         THEN [capacity |-> max_tokens, allowed |-> 1]
         ELSE [h EXCEPT !.allowed = @ + 1]

\* check_and_consume: the EVAL inside the try; an exception is logged and the
\* call fails open with (True, None).
CheckEval(w) ==
    /\ lim[w].pc = "cc_eval"
    /\ LET res == LuaConsume(bucket, lim[w].effective_limit, WindowSeconds, lim[w].now, 1)
       IN IF kvUp
          THEN /\ bucket' = res.bucket
               /\ sinceRefill' = SinceRefill(sinceRefill, bucket, res, lim[w].effective_limit)
               /\ lim' = [lim EXCEPT ![w] =
                            AfterCheck(@, res.allowed, ReturnedWait(res.wait_seconds))]
          ELSE /\ bucket' = bucket
               /\ sinceRefill' = sinceRefill
               /\ lim' = [lim EXCEPT ![w] = AfterCheck(@, TRUE, 0)]
    /\ UNCHANGED <<now, kvUp, restLimiter>>

\* _wait_for_rate_limit: asyncio.sleep(wait_seconds) is over; the check is repeated.
WaitOver(w) ==
    /\ lim[w].pc = "sleep"
    /\ now >= lim[w].wake
    /\ lim' = [lim EXCEPT ![w] = [@ EXCEPT !.pc = "cc_factor", !.second = TRUE]]
    /\ UNCHANGED <<now, kvUp, bucket, sinceRefill, restLimiter>>

\* _make_request: self.client.request(...) is issued.
RequestSend(w) ==
    /\ lim[w].pc = "send"
    /\ lim' = [lim EXCEPT ![w] = [@ EXCEPT !.pc = "done", !.outcome = "sent", !.sent = TRUE]]
    /\ UNCHANGED <<now, kvUp, bucket, sinceRefill, restLimiter>>

\* The caller has its answer; the worker takes the next call.
CallerReturns(w) ==
    /\ lim[w].pc = "done"
    /\ lim' = [lim EXCEPT ![w] = IdleCaller]
    /\ UNCHANGED <<now, kvUp, bucket, sinceRefill, restLimiter>>

\* A second passes.
LimiterTick ==
    /\ now < MaxTime
    /\ now' = now + 1
    /\ UNCHANGED <<kvUp, bucket, sinceRefill, lim, restLimiter>>

\* The Redis server stops answering, or answers again.
KvFlips ==
    /\ kvUp' = ~kvUp
    /\ UNCHANGED <<now, bucket, sinceRefill, lim, restLimiter>>

\* A user whose factor is absent, lowered or at the minimum, with the
\* breaker CLOSED or just opened by record_failure.
InitLimiter ==
    /\ rows = {}
    /\ remote = NoProduct
    /\ PurchaseAtRest
    /\ WebhookAtRest
    /\ BulkAtRest
    /\ now = 0
    /\ kvUp \in BOOLEAN
    /\ factor \in {NoFactor, [present |-> TRUE, value |-> ReducedFactor(BaseFactor)],
                   [present |-> TRUE, value |-> MinFactor]}
    /\ recent429 = FALSE
    /\ notified = NoNotified
    /\ bucket = NoBucket
    /\ sinceRefill = NoRefill
    /\ lim = [w \in Workers |-> IdleCaller]
    /\ brk = [w \in Workers |-> IdleRequest]
    /\ halfOpened = [ever |-> FALSE, elapsed |-> 0, oks |-> 0]
    /\ brSuccesses = NoSuccesses
    /\ brHist = NoHist
    /\ rq = [w \in Workers |-> IdleRetry]
    /\ \E open \in BOOLEAN :
          IF open
          THEN /\ brState = SetState("OPEN")
               /\ brOpenedAt = [at |-> now, expires |-> now + BreakerTimeout]
               /\ brFailures = [count |-> FailureThreshold, expires |-> now + BreakerTimeout]
               /\ lastOpened = [ever |-> TRUE, at |-> now]
          ELSE /\ brState = NoKey
               /\ brOpenedAt = NoOpenedAt
               /\ brFailures = NoFailures
               /\ lastOpened = [ever |-> FALSE, at |-> 0]

LimiterStep(w) ==
    \/ AcquireStart(w)
    \/ RequestStart(w)
    \/ RequestGetState(w)
    \/ CheckGetFactor(w)
    \/ CheckEval(w)
    \/ WaitOver(w)
    \/ RequestSend(w)
    \/ CallerReturns(w)

NextLimiter ==
    \/ \E w \in Workers : LimiterStep(w)
    \/ LimiterTick
    \/ KvFlips

SpecLimiter == InitLimiter /\ [][NextLimiter]_vars

\* C10: when every KV operation of a call raises, check_and_consume returns
\* allowed = True with no wait instead of raising, and a client request goes
\* on to issue its HTTP request.
C10_FailOpen ==
    \A w \in Workers :
        (lim[w].pc = "done" /\ ~lim[w].kv_answered) =>
            IF lim[w].op = "acquire"
            THEN lim[w].outcome = "returned" /\ lim[w].allowed /\ lim[w].wait_seconds = 0
            ELSE lim[w].sent

(***************************************************************************)
(* SpecBreaker: the circuit breaker as CardTraderClient._make_request uses *)
(* it.  Its keys live in Redis and are shared by every worker process; each *)
(* Redis command is one step.  lastOpened is the time of the last change   *)
(* into OPEN; halfOpened is, for the last change from OPEN to HALF_OPEN,   *)
(* the time that had passed since then.                                    *)
(***************************************************************************)
restBreaker ==
    <<rows, remote, varsPurchase, varsWebhook, varsBulk, varsLimiter, varsCircuit, rq>>

\* success_threshold
SuccessThreshold == 2

\* redis.incr(failures_key); the count saturates at the threshold, above
\* which record_failure no longer tells counts apart.
IncrFailures ==
    Min(FailureThreshold, (IF now < brFailures.expires THEN brFailures.count ELSE 0) + 1)

BreakerRequestStart(w) ==
    /\ brk[w].pc = "idle"
    /\ brk' = [brk EXCEPT ![w] = [@ EXCEPT !.pc = "get_state"]]
    /\ UNCHANGED <<now, brState, brOpenedAt, brFailures, lastOpened, halfOpened, restBreaker>>

\* _make_request: state = self.circuit_breaker.get_state().
BreakerGetState(w) ==
    /\ brk[w].pc = "get_state"
    /\ brk' = [brk EXCEPT ![w] =
                 [@ EXCEPT !.pc = IF BreakerState = "OPEN" THEN "reset_state" ELSE "sending"]]
    /\ UNCHANGED <<now, brState, brOpenedAt, brFailures, lastOpened, halfOpened, restBreaker>>

\* should_attempt_reset: its own get_state(); not OPEN returns False and
\* _make_request raises RateLimitError.
BreakerResetState(w) ==
    /\ brk[w].pc = "reset_state"
    /\ brk' = [brk EXCEPT ![w] =
                 [@ EXCEPT !.pc = IF BreakerState = "OPEN" THEN "reset_opened_at" ELSE "idle"]]
    /\ UNCHANGED <<now, brState, brOpenedAt, brFailures, lastOpened, halfOpened, restBreaker>>

\* should_attempt_reset: the read of opened_at and the elapsed-time test.
BreakerResetOpenedAt(w) ==
    /\ brk[w].pc = "reset_opened_at"
    /\ brk' = [brk EXCEPT ![w] =
                 [@ EXCEPT !.pc = IF ShouldAttemptReset THEN "set_half_open" ELSE "idle"]]
    /\ UNCHANGED <<now, brState, brOpenedAt, brFailures, lastOpened, halfOpened, restBreaker>>

\* _make_request: self.circuit_breaker.set_state(CircuitState.HALF_OPEN).
BreakerSetHalfOpen(w) ==
    /\ brk[w].pc = "set_half_open"
    /\ brState' = SetState("HALF_OPEN")
    /\ halfOpened' = IF BreakerState = "OPEN"
                     THEN [ever |-> TRUE, elapsed |-> now - lastOpened.at, oks |-> 0]
                     ELSE halfOpened
    /\ brk' = [brk EXCEPT ![w] = [@ EXCEPT !.pc = "sending"]]
    /\ UNCHANGED <<now, brOpenedAt, brFailures, lastOpened, restBreaker>>

\* max_retries of _make_request.
MaxRequestRetries == 3

\* What a 429 answer makes _make_request do next: the request is sent again,
\* or RateLimitError is raised once retry_count has reached max_retries.
\* circuit_breaker.record_failure is not on this path.
After429(r) ==
    LET retry_count == r.retry_count + 1
        answers429 == Min(FailureThreshold, r.answers429 + 1)
    IN IF retry_count >= MaxRequestRetries
       THEN [r EXCEPT !.pc = "idle", !.retry_count = 0, !.answers429 = answers429]
       ELSE [r EXCEPT !.pc = "sending", !.retry_count = retry_count,
                      !.answers429 = answers429]

\* What a successful response does to the breaker's keys: _make_request
\* calls adaptive_rate_limiter.record_success only, the breaker is not told.
SuccessfulResponse(successes) == successes

\* The HTTP request: a successful response; a 429, handled by the retry loop
\* (its record_429_response is followed in SpecFactor); or an HTTP error
\* other than 429 or a network error, which goes to record_failure.
BreakerSend(w) ==
    /\ brk[w].pc = "sending"
    /\ \E answer \in {"ok", "429", "error"} :
        /\ brk' = [brk EXCEPT ![w] =
                  IF answer = "429" THEN After429(@)
                  ELSE [@ EXCEPT !.pc = IF answer = "ok" THEN "idle" ELSE "rf_incr",
                                 !.retry_count = 0, !.answers429 = 0]]
        /\ halfOpened' = IF answer = "ok" /\ BreakerState = "HALF_OPEN"
                         THEN [halfOpened EXCEPT !.oks = Min(SuccessThreshold, @ + 1)]
                         ELSE halfOpened
        /\ brSuccesses' = IF answer = "ok" THEN SuccessfulResponse(brSuccesses)
                          ELSE brSuccesses
    /\ UNCHANGED <<now, brState, brOpenedAt, brFailures, lastOpened, brHist, rq,
                   rows, remote, varsPurchase, varsWebhook, varsBulk, varsLimiter>>

\* record_failure: incr and expire of the failure counter, then the threshold
\* test; failures is its local, kept only while record_failure goes on.
RecordFailureIncr(w) ==
    /\ brk[w].pc = "rf_incr"
    /\ brFailures' = [count |-> IncrFailures, expires |-> now + BreakerTimeout]
    /\ brk' = [brk EXCEPT ![w] =
                 [@ EXCEPT !.pc = IF IncrFailures >= FailureThreshold
                                  THEN "rf_set_open" ELSE "idle",
                           !.failures = IF IncrFailures >= FailureThreshold
                                        THEN IncrFailures ELSE 0]]
    /\ UNCHANGED <<now, brState, brOpenedAt, lastOpened, halfOpened, restBreaker>>

\* record_failure: self.set_state(CircuitState.OPEN).
RecordFailureSetOpen(w) ==
    /\ brk[w].pc = "rf_set_open"
    /\ brState' = SetState("OPEN")
    /\ lastOpened' = IF BreakerState = "OPEN" THEN lastOpened
                     ELSE [ever |-> TRUE, at |-> now]
    /\ brk' = [brk EXCEPT ![w] = [@ EXCEPT !.pc = "rf_opened_at"]]
    /\ UNCHANGED <<now, brOpenedAt, brFailures, halfOpened, restBreaker>>

\* record_failure: setex(opened_at key, timeout, time.time()).
RecordFailureOpenedAt(w) ==
    /\ brk[w].pc = "rf_opened_at"
    /\ brOpenedAt' = [at |-> now, expires |-> now + BreakerTimeout]
    /\ brk' = [brk EXCEPT ![w] = IdleRequest]
    /\ UNCHANGED <<now, brState, brFailures, lastOpened, halfOpened, restBreaker>>

\* A second passes.
BreakerTick ==
    /\ now < MaxTime
    /\ now' = now + 1
    /\ UNCHANGED <<brState, brOpenedAt, brFailures, brk, lastOpened, halfOpened, restBreaker>>

InitBreaker ==
    /\ rows = {}
    /\ remote = NoProduct
    /\ PurchaseAtRest
    /\ WebhookAtRest
    /\ BulkAtRest
    /\ KVAtRest

BreakerStep(w) ==
    \/ BreakerRequestStart(w)
    \/ BreakerGetState(w)
    \/ BreakerResetState(w)
    \/ BreakerResetOpenedAt(w)
    \/ BreakerSetHalfOpen(w)
    \/ BreakerSend(w)
    \/ RecordFailureIncr(w)
    \/ RecordFailureSetOpen(w)
    \/ RecordFailureOpenedAt(w)

NextBreaker ==
    \/ \E w \in Workers : BreakerStep(w)
    \/ BreakerTick

SpecBreaker == InitBreaker /\ [][NextBreaker]_vars

\* C7: the breaker's state is always one of CLOSED, OPEN and HALF_OPEN, and
\* every change from OPEN to HALF_OPEN happens at least the timeout after the
\* breaker was last opened, whatever the interleaving of the callers.
C7_BreakerTransitions ==
    /\ BreakerState \in {"CLOSED", "OPEN", "HALF_OPEN"}
    /\ halfOpened.ever => halfOpened.elapsed >= BreakerTimeout

(***************************************************************************)
(* SpecReceive: the webhook endpoints of routes/sync.py and the task they  *)
(* queue.  One order.create request arrives, signed or not, for a user     *)
(* with or without a webhook_secret.                                       *)
(***************************************************************************)
SigningKeys == 1..2

\* validate_webhook_signature: the HMAC of the body under the shared secret
\* equals the decoded header exactly when the sender signed with that secret.
ValidateWebhookSignature(header, shared_secret) == header = shared_secret

\* receive_webhook: verify_webhook runs only when both the secret and the
\* header are there; this is whether it raised WebhookValidationError.
ValidationFailed(req) ==
    /\ req.secret # 0
    /\ req.header # 0
    /\ ~ValidateWebhookSignature(req.header, req.secret)

restReceive == <<remote, varsPurchase, lastOp, whOrder, varsBulk, varsKV>>

\* POST /webhook/user/{user_id}: an unknown user is answered without a task;
\* otherwise the signature is checked, a failure is logged, and
\* process_webhook_notification.delay is called.
ReceiveWebhook ==
    /\ whPc = "start"
    /\ whBefore' = rows
    /\ whReq' = IF ~whReq.known
                THEN [whReq EXCEPT !.status_code = 200, !.response = "error"]
                ELSE [whReq EXCEPT !.status_code = 200, !.response = "accepted",
                                   !.queued = TRUE]
    /\ whPc' = "received"
    /\ UNCHANGED <<rows, restReceive>>

\* POST /webhook/{webhook_id}: no signature check at all.
ReceiveWebhookLegacy ==
    /\ whPc = "start"
    /\ whBefore' = rows
    /\ whReq' = [whReq EXCEPT !.status_code = 200, !.response = "accepted",
                              !.queued = TRUE]
    /\ whPc' = "received"
    /\ UNCHANGED <<rows, restReceive>>

\* process_webhook_notification: the worker runs the queued task; the rows
\* it looks up are those of the user the task was queued for.
ProcessWebhookNotification ==
    /\ whPc = "received"
    /\ whReq.queued
    /\ rows' = IF whReq.known THEN HandleOrderCreate(rows, whOrder) ELSE rows
    /\ whReq' = [whReq EXCEPT !.queued = FALSE]
    /\ whPc' = "processed"
    /\ UNCHANGED <<whBefore, restReceive>>

InitReceive ==
    /\ \E qty \in [ProductIds -> Quantities] : rows = InventoryOf(qty)
    /\ remote = NoProduct
    /\ PurchaseAtRest
    /\ lastOp = NoOp
    /\ whOrder \in InvOrders({"paid"}, {"none"})
    /\ whPc = "start"
    /\ whBefore = {}
    /\ whReq \in [known : BOOLEAN, secret : {0} \cup SigningKeys,
                  header : {0} \cup SigningKeys, status_code : {0},
                  response : {"none"}, queued : {FALSE}]
    /\ BulkAtRest
    /\ KVAtRest

NextReceive ==
    \/ ReceiveWebhook
    \/ ReceiveWebhookLegacy
    \/ ProcessWebhookNotification

SpecReceive == InitReceive /\ [][NextReceive]_vars

\* C11: a webhook whose Signature header does not verify against the user's
\* webhook_secret is answered with a 2xx status, is never queued for
\* processing, and changes no inventory quantity.
C11_InvalidSignatureNotProcessed ==
    (whPc # "start" /\ ValidationFailed(whReq)) =>
        /\ whReq.status_code = 200
        /\ ~whReq.queued
        /\ whPc # "processed"
        /\ rows = whBefore

\* C14: every 429 answer counts as a breaker failure, so once a client has
\* been answered 429 as many times in a row as the failure threshold, the
\* breaker has been opened.
C14_429OpensBreaker ==
    \A w \in Workers : brk[w].answers429 >= FailureThreshold => lastOpened.ever

\* C18: a client call made while the breaker is OPEN and was opened less than
\* the timeout before fails fast: no HTTP request, no rate-limit token, and
\* the dedicated service-unavailable error, not the rate-limit error.
C18_OpenFailsFast ==
    \A w \in Workers :
        (lim[w].pc = "done" /\ lim[w].breaker_open) =>
            /\ ~lim[w].sent
            /\ ~lim[w].allowed
            /\ lim[w].outcome = "service_unavailable_error"
            /\ lim[w].outcome # "rate_limit_error"

\* C19: under any interleaving of the workers' calls, the stored token count
\* is never negative, and the calls the script has allowed since the last
\* stored refill never exceed the capacity that refill installed, which is
\* floor(B * f) for a factor f the calling worker read.
C19_BucketNeverOverdrawn ==
    /\ bucket.tokens >= 0
    /\ sinceRefill.allowed <= sinceRefill.capacity
    /\ bucket.present =>
          /\ bucket.tokens = sinceRefill.capacity - sinceRefill.allowed
          /\ sinceRefill.capacity = EffectiveLimit(GetAdaptiveFactor(factor))

\* C19 witness: two workers called concurrently, the bucket held fewer
\* tokens than callers, one call was allowed, the other refused with a wait.
C19_Witness ==
    \E w1, w2 \in Workers :
        /\ w1 # w2
        /\ lim[w1].pc = "done" /\ lim[w1].op = "acquire" /\ lim[w1].allowed
        /\ lim[w1].kv_answered /\ lim[w1].outcome = "returned"
        /\ lim[w2].pc = "done" /\ lim[w2].op = "acquire" /\ ~lim[w2].allowed
        /\ lim[w2].wait_seconds > 0
        /\ lim[w1].now = lim[w2].now
        /\ bucket.present /\ bucket.tokens = 0
        /\ sinceRefill.allowed = sinceRefill.capacity

(***************************************************************************)
(* SpecStart: start_sync requests (routes/sync.py) against a user in any   *)
(* sync status, with or without settings and a usable token.               *)
(***************************************************************************)
\* SyncStatusEnum
SyncStatusValues == {"idle", "initial_sync", "active", "error"}

\* start_sync, the whole handler: the answer is recorded, and an accepted
\* request queues the task whose id it returns.
StartSyncRequest(t) ==
    /\ tasks[t].pc = "none"
    /\ \A u \in TaskIds : u < t => tasks[u].pc # "none"
    /\ \E has_settings \in BOOLEAN, token \in Tokens, force \in BOOLEAN :
          LET answer == StartSyncAnswer(has_settings, token, force, syncStatus) IN
          /\ startReq' = [has_settings |-> has_settings, token |-> token,
                          force |-> force, sync_status |-> syncStatus,
                          answer |-> answer,
                          task_id |-> IF answer = "accepted" THEN t ELSE 0]
          /\ tasks' = IF answer = "accepted"
                      THEN [tasks EXCEPT ![t].pc = "queued"]
                      ELSE tasks
    /\ UNCHANGED <<rows, remote, export, syncStatus, settings, operations, upd,
                   varsPurchase, varsWebhook, varsKV>>

InitStart ==
    /\ rows = {}
    /\ remote = NoProduct
    /\ PurchaseAtRest
    /\ WebhookAtRest
    /\ export = <<>>
    /\ syncStatus \in SyncStatusValues
    /\ settings = NoSettings
    /\ operations = [t \in TaskIds |-> NoOperation]
    /\ startReq = NoStart
    /\ upd = NoUpdates
    /\ tasks = [t \in TaskIds |-> NoTask]
    /\ KVAtRest

NextStart == \E t \in TaskIds : StartSyncRequest(t)

SpecStart == InitStart /\ [][NextStart]_vars

\* C21: a start request of a user with settings and a non-empty token is
\* rejected with SYNC_IN_PROGRESS when not forced and the status is
\* initial_sync, and is accepted, with a task queued, in every other case.
C21_StartPreconditions ==
    (startReq.has_settings /\ startReq.token = "tok") =>
        IF ~startReq.force /\ startReq.sync_status = "initial_sync"
        THEN startReq.answer = "SYNC_IN_PROGRESS"
        ELSE /\ startReq.answer = "accepted"
             /\ startReq.task_id \in TaskIds
             /\ tasks[startReq.task_id].pc = "queued"

(***************************************************************************)
(* SpecCircuit: the circuit breaker's own methods (circuit_breaker.py), as *)
(* CardTraderCircuitBreaker.call and the client run them: record_failure,  *)
(* record_success and the reset attempt of an OPEN breaker, each run to    *)
(* its end before the next, while time passes.                             *)
(***************************************************************************)
\* The error types call() tells record_failure.
ErrorTypes == {"rate_limit", "generic"}

restCircuit ==
    <<rows, remote, varsPurchase, varsWebhook, varsBulk, varsLimiter, brk, rq>>

\* redis.incr(successes_key) of a key that expires after half_open_timeout.
IncrSuccesses ==
    Min(SuccessThreshold,
        (IF now < brSuccesses.expires THEN brSuccesses.count ELSE 0) + 1)

\* A record made while the breaker was HALF_OPEN is added to the log.
Logged(log, before, rec, after) ==
    IF before = "HALF_OPEN" /\ Len(log) < MaxLog
    THEN Append(log, [rec |-> rec, after |-> after])
    ELSE log

\* Whether record_failure opens the circuit: failures >= failure_threshold.
OpensCircuit(failures) == failures >= FailureThreshold

\* record_failure(error_type): the counter is incremented and given the
\* timeout as its time to live again; at the threshold set_state(OPEN) and
\* the setex of opened_at follow.
RecordFailure ==
    \E error_type \in ErrorTypes :
        LET failures == IncrFailures
            restarted == ~(now < brFailures.expires) \/ brFailures.count = 0
            first == IF restarted THEN now ELSE brHist.first
            kinds == IF restarted THEN {error_type}
                     ELSE brHist.kinds \cup {error_type}
            opens == OpensCircuit(failures)
            after == IF opens THEN "OPEN" ELSE BreakerState
        IN /\ brFailures' = [count |-> failures, expires |-> now + BreakerTimeout]
           /\ brState' = IF opens THEN SetState("OPEN") ELSE brState
           /\ brOpenedAt' = IF opens
                            THEN [at |-> now, expires |-> now + BreakerTimeout]
                            ELSE brOpenedAt
           /\ lastOpened' = IF opens /\ BreakerState # "OPEN"
                            THEN [ever |-> TRUE, at |-> now] ELSE lastOpened
           /\ brHist' = [brHist EXCEPT
                            !.first = first, !.kinds = kinds,
                            !.opened = @ \/ opens,
                            !.span = IF opens /\ BreakerState # "OPEN"
                                     THEN now - first ELSE @,
                            !.opened_kinds = IF opens /\ BreakerState # "OPEN"
                                             THEN kinds ELSE @,
                            !.log = Logged(@, BreakerState, "failure", after)]
           /\ UNCHANGED <<now, brSuccesses, halfOpened, restCircuit>>

\* record_success(): the failures counter is deleted; in HALF_OPEN the
\* successes counter is incremented and given half_open_timeout to live,
\* and at the threshold set_state(CLOSED) runs and the counter is deleted.
RecordSuccess ==
    LET successes == IncrSuccesses
        closes == BreakerState = "HALF_OPEN" /\ successes >= SuccessThreshold
        after == IF closes THEN "CLOSED" ELSE BreakerState
    IN /\ brFailures' = NoFailures
       /\ brSuccesses' = IF BreakerState # "HALF_OPEN" THEN brSuccesses
                         ELSE IF closes THEN NoSuccesses
                         ELSE [count |-> successes, expires |-> now + HalfOpenTimeout]
       /\ brState' = IF closes THEN SetState("CLOSED") ELSE brState
       /\ brHist' = [brHist EXCEPT !.first = 0, !.kinds = {},
                                   !.log = Logged(@, BreakerState, "success", after)]
       /\ UNCHANGED <<now, brOpenedAt, lastOpened, halfOpened, restCircuit>>

\* An OPEN breaker whose reset is due is set to HALF_OPEN: by call(), which
\* then deletes the successes counter, or by _make_request, which does not.
AttemptReset ==
    /\ BreakerState = "OPEN"
    /\ ShouldAttemptReset
    /\ brState' = SetState("HALF_OPEN")
    /\ halfOpened' = [ever |-> TRUE, elapsed |-> now - lastOpened.at, oks |-> 0]
    /\ \E by_call \in BOOLEAN :
          brSuccesses' = IF by_call THEN NoSuccesses ELSE brSuccesses
    /\ brHist' = [brHist EXCEPT !.log = <<>>]
    /\ UNCHANGED <<now, brOpenedAt, brFailures, lastOpened, restCircuit>>

\* A second passes.
CircuitTick ==
    /\ now < MaxTime
    /\ now' = now + 1
    /\ UNCHANGED <<brState, brOpenedAt, brFailures, lastOpened, halfOpened,
                   varsCircuit, restCircuit>>

InitCircuit ==
    /\ rows = {}
    /\ remote = NoProduct
    /\ PurchaseAtRest
    /\ WebhookAtRest
    /\ BulkAtRest
    /\ KVAtRest

NextCircuit ==
    \/ RecordFailure
    \/ RecordSuccess
    \/ AttemptReset
    \/ CircuitTick

SpecCircuit == InitCircuit /\ [][NextCircuit]_vars

\* C22: the breaker opens exactly when the failures counter reaches the
\* threshold, failures of either kind counting, and the failures that open
\* it all fall within one window of `timeout` seconds: fewer failures than
\* the threshold inside the window never open it.
C22_OpensAtThresholdInWindow ==
    /\ brHist.opened => lastOpened.ever
    /\ lastOpened.ever => brHist.span < BreakerTimeout

\* C23: in HALF_OPEN the breaker closes exactly when two successes in a row
\* have been recorded: the record that closes it is a success that follows
\* a success directly, and every such success closes it; success, failure,
\* success does not.
C23_ClosesOnConsecutiveSuccesses ==
    \A i \in 1..Len(brHist.log) :
        brHist.log[i].after = "CLOSED" <=>
            /\ i >= 2
            /\ brHist.log[i].rec = "success"
            /\ brHist.log[i - 1].rec = "success"

\* C24: any single failure recorded in HALF_OPEN moves the breaker back to
\* OPEN.
C24_HalfOpenFailureReopens ==
    \A i \in 1..Len(brHist.log) :
        brHist.log[i].rec = "failure" => brHist.log[i].after = "OPEN"

\* C25: a successful response of the client counts as a success of the
\* breaker: once the client has had success_threshold successful responses
\* in HALF_OPEN, the breaker is no longer HALF_OPEN.
C25_ClientSuccessClosesBreaker ==
    halfOpened.oks >= SuccessThreshold => BreakerState # "HALF_OPEN"

(***************************************************************************)
(* SpecRetry: the retry loop of CardTraderClient._make_request, run by two *)
(* workers, with the marketplace answering each request with a response,   *)
(* a 429 or an error.  SpecRetryFair adds that a started call is run on.   *)
(***************************************************************************)
restRetry ==
    <<rows, remote, varsPurchase, varsWebhook, varsBulk, now, varsLimiter, varsBreaker>>

\* if retry_count >= max_retries: raise RateLimitError.
RetriesExhaustedNever(retry_count) == FALSE

RetriesExhausted(retry_count) == retry_count >= MaxRequestRetries

\* _make_request has passed the breaker and the first _wait_for_rate_limit.
RetryStart(w) ==
    /\ rq[w].pc = "idle"
    /\ rq' = [rq EXCEPT ![w] = [IdleRetry EXCEPT !.pc = "request"]]
    /\ UNCHANGED restRetry

\* while retry_count < max_retries: the request is sent and answered; when
\* the loop's condition fails the function ends without a return value.
RetrySend(w) ==
    /\ rq[w].pc = "request"
    /\ IF rq[w].retry_count < MaxRequestRetries
       THEN \E answer \in {"ok", "429", "error"} :
              rq' = [rq EXCEPT ![w] =
                       IF answer = "429"
                       THEN [@ EXCEPT !.pc = "record", !.sent = @ + 1,
                                      !.retry_count = @ + 1]
                       ELSE [@ EXCEPT !.pc = "done", !.sent = @ + 1,
                                      !.outcome = IF answer = "ok" THEN "returned"
                                                  ELSE "api_error"]]
       ELSE rq' = [rq EXCEPT ![w] = [@ EXCEPT !.pc = "done", !.outcome = "returned"]]
    /\ UNCHANGED restRetry

\* 429: adaptive_rate_limiter.record_429_response(user_id), whose effect on
\* the factor SpecFactor follows.
RetryRecord429(w) ==
    /\ rq[w].pc = "record"
    /\ rq' = [rq EXCEPT ![w] = [@ EXCEPT !.pc = "wait", !.recorded = @ + 1]]
    /\ UNCHANGED restRetry

\* 429: asyncio.sleep(wait_time), then _wait_for_rate_limit(), which may
\* raise RateLimitError; with retry_count at max_retries RateLimitError is
\* raised, otherwise the loop goes round.
RetryWait(w) ==
    /\ rq[w].pc = "wait"
    /\ \E limiter_allows \in BOOLEAN :
          rq' = [rq EXCEPT ![w] =
                   IF ~limiter_allows \/ RetriesExhausted(rq[w].retry_count)
                   THEN [@ EXCEPT !.pc = "done", !.outcome = "rate_limit_error"]
                   ELSE [@ EXCEPT !.pc = "request"]]
    /\ UNCHANGED restRetry

\* The caller has its answer or its exception.
RetryReturn(w) ==
    /\ rq[w].pc = "done"
    /\ rq' = [rq EXCEPT ![w] = IdleRetry]
    /\ UNCHANGED restRetry

InitRetry ==
    /\ rows = {}
    /\ remote = NoProduct
    /\ PurchaseAtRest
    /\ WebhookAtRest
    /\ BulkAtRest
    /\ KVAtRest

RetryStep(w) ==
    \/ RetryStart(w)
    \/ RetrySend(w)
    \/ RetryRecord429(w)
    \/ RetryWait(w)
    \/ RetryReturn(w)

NextRetry == \E w \in Workers : RetryStep(w)

SpecRetry == InitRetry /\ [][NextRetry]_vars

\* The event loop runs every started call on: responses arrive or time out,
\* sleeps end.
SpecRetryFair == SpecRetry /\ \A w \in Workers : WF_vars(RetryStep(w))

\* A call all of whose requests were answered 429.
Only429s(r) == r.sent > 0 /\ r.retry_count = r.sent

C27_SendOnlyWhenAllowed ==
    \A w \in Workers :
        (lim[w].op = "request" /\ (lim[w].pc = "send" \/ lim[w].sent)) =>
            lim[w].allowed

\* C28: a record_success made while no 429 of the last 5 minutes is stored
\* goes on to store min(max_factor, f * 1.01), whatever the current factor
\* f between min_factor and max_factor is.
C28_SuccessRaisesFactor ==
    [][\A w \in Workers :
          (lim[w].pc = "rs_get" /\ lim'[w].pc # "rs_get" /\ ~recent429) =>
              /\ lim'[w].pc = "rs_set"
              /\ lim'[w].current_factor = GetAdaptiveFactor(factor)]_vars

(***************************************************************************)
(* SpecNotify: record_429_response calls of the workers for one user,      *)
(* started from any stored factor, and nothing else touching the factor.   *)
(***************************************************************************)
MaxNotifications == 3

\* The factors the calls start from, between min_factor and the base.
StartFactors == {v \in MinFactor..BaseFactor : v % 20 = 0}

\* Callers inside record_429_response.
Notifying == {w \in Workers : lim[w].pc # "idle"}

\* The factor after k reductions of f made one after the other.
RECURSIVE ReducedTimes(_, _)
ReducedTimes(f, k) == IF k = 0 THEN f ELSE ReducedTimes(ReducedFactor(f), k - 1)

NotifyStart(w) ==
    /\ notified.count + Cardinality(Notifying) < MaxNotifications
    /\ Record429Stats(w)

InitNotify ==
    /\ rows = {}
    /\ remote = NoProduct
    /\ PurchaseAtRest
    /\ WebhookAtRest
    /\ BulkAtRest
    /\ BreakerAtRest
    /\ rq = [w \in Workers |-> IdleRetry]
    /\ now = 0
    /\ kvUp = TRUE
    /\ factor \in {NoFactor} \cup {[present |-> TRUE, value |-> v] : v \in StartFactors}
    /\ recent429 = FALSE
    /\ notified = [tracked |-> TRUE, from |-> GetAdaptiveFactor(factor), count |-> 0]
    /\ bucket = NoBucket
    /\ sinceRefill = NoRefill
    /\ lim = [w \in Workers |-> IdleCaller]

NotifyStep(w) ==
    \/ NotifyStart(w)
    \/ Record429Get(w)
    \/ Record429Set(w)

NextNotify == \E w \in Workers : NotifyStep(w)

SpecNotify == InitNotify /\ [][NextNotify]_vars

\* C29: once k record_429_response calls for the user have returned and none
\* is in progress, the factor f they started from has become
\* max(min_factor, f * 0.9^k), however the calls' steps interleaved.
C29_EveryNotificationReduces ==
    Notifying = {} =>
        GetAdaptiveFactor(factor) = ReducedTimes(notified.from, notified.count)

\* C30: a purchase's step 6 that ends in success leaves the item with the
\* quantity the row had just before that step minus the purchased quantity, so
\* that what a webhook, an update or a sync committed since step 1 is kept.
C30_CommitKeepsInterleavedChange ==
    [][\A p \in Buyers :
          (pur[p].pc = "commit" /\ pur'[p].pc = "done" /\ pur'[p].status = "success") =>
              \E before \in rows, after \in rows' :
                  /\ before.id = 1
                  /\ after.id = 1
                  /\ after.quantity = before.quantity - pur[p].req]_vars

(***************************************************************************)
(* SpecUpdate: update_inventory_item and delete_inventory_item on one item *)
(* with an external_stock_id, and the sync_update and sync_delete tasks    *)
(* they queue (routes/sync.py, tasks/sync_tasks.py). The broker accepts    *)
(* every task.                                                             *)
(***************************************************************************)
\* SyncOperation(operation_id = task id, operation_type, status = "pending").
PendingOperation(operation_type) ==
    [NoOperation EXCEPT !.status = "pending", !.operation_type = operation_type]

restUpdate == <<varsPurchase, varsWebhook, export, syncStatus, settings, startReq, tasks, varsKV>>

\* update_inventory_item: the row is committed; when the quantity changed,
\* the task is queued with every field None and its operation registered.
UpdateItemRequest(t) ==
    /\ upd.task[t].pc = "none"
    /\ HasRow(1)
    /\ \E quantity \in Quantities :
          LET sync_needed == quantity # RowById(1).quantity IN
          /\ rows' = SetQuantity(rows, 1, quantity)
          /\ upd' = IF sync_needed
                    THEN [upd EXCEPT !.task[t] = [NoUpdate EXCEPT !.pc = "queued",
                                                                 !.kind = "sync_update"]]
                    ELSE upd
          /\ operations' = IF sync_needed
                           THEN [operations EXCEPT ![t] = PendingOperation("sync_update")]
                           ELSE operations
    /\ UNCHANGED <<remote, restUpdate>>

\* delete_inventory_item: the row is deleted, the task queued with the row's
\* external_stock_id and its operation registered.
DeleteItemRequest(t) ==
    /\ upd.task[t].pc = "none"
    /\ HasRow(1)
    /\ rows' = rows \ {RowById(1)}
    /\ upd' = [upd EXCEPT !.task[t] = [NoUpdate EXCEPT !.pc = "queued",
                                                      !.kind = "sync_delete"]]
    /\ operations' = [operations EXCEPT ![t] = PendingOperation("sync_delete")]
    /\ UNCHANGED <<remote, restUpdate>>

\* self.retry of a RateLimitError: the task is queued again, up to max_retries.
RetriedTask(task) ==
    IF task.retries < MaxRetries
    THEN [task EXCEPT !.pc = "queued", !.retries = @ + 1]
    ELSE [task EXCEPT !.pc = "failed"]

\* _sync_update_product_async: the row is read; a missing row raises.
SyncUpdateRead(t) ==
    /\ upd.task[t].pc = "queued"
    /\ upd.task[t].kind = "sync_update"
    /\ upd' = IF HasRow(1)
              THEN [upd EXCEPT !.task[t].pc = "read",
                               !.task[t].quantity = RowById(1).quantity]
              ELSE [upd EXCEPT !.task[t].pc = "failed"]
    /\ UNCHANGED <<rows, remote, operations, restUpdate>>

\* _sync_update_product_async: bulk_update_products([update_data]) with the
\* quantity read; the task returns, is retried or raises.
SyncUpdateSend(t) ==
    /\ upd.task[t].pc = "read"
    /\ \E answer \in FetchOutcomes :
          /\ upd' = CASE answer = "ok" ->
                           [upd EXCEPT !.task[t].pc = "done",
                                       !.received = [any |-> TRUE,
                                                     quantity |-> upd.task[t].quantity]]
                      [] answer = "rate_limited" ->
                           [upd EXCEPT !.task[t] = RetriedTask(@)]
                      [] OTHER -> [upd EXCEPT !.task[t].pc = "failed"]
          /\ remote' = IF answer = "ok" /\ remote.present
                       THEN [remote EXCEPT !.quantity = upd.task[t].quantity]
                       ELSE remote
    /\ UNCHANGED <<rows, operations, restUpdate>>

\* _sync_delete_product_async: delete_product(external_stock_id); a 404 is
\* a success as well.
SyncDeleteRun(t) ==
    /\ upd.task[t].pc = "queued"
    /\ upd.task[t].kind = "sync_delete"
    /\ \E answer \in FetchOutcomes :
          /\ upd' = CASE answer = "ok" -> [upd EXCEPT !.task[t].pc = "done"]
                      [] answer = "rate_limited" ->
                           [upd EXCEPT !.task[t] = RetriedTask(@)]
                      [] OTHER -> [upd EXCEPT !.task[t].pc = "failed"]
          /\ remote' = IF answer = "ok" THEN NoProduct ELSE remote
    /\ UNCHANGED <<rows, operations, restUpdate>>

\* An item in sync with the marketplace, no task queued.
InitUpdate ==
    /\ envFaults \in BOOLEAN
    /\ \E q \in Quantities :
          /\ rows = {StockRow(q)}
          /\ remote = [present |-> TRUE, quantity |-> q]
    /\ PurchaseIdle
    /\ WebhookAtRest
    /\ BulkAtRest
    /\ KVAtRest

UpdateStep(t) ==
    \/ UpdateItemRequest(t)
    \/ DeleteItemRequest(t)
    \/ SyncUpdateRead(t)
    \/ SyncUpdateSend(t)
    \/ SyncDeleteRun(t)

NextUpdate == \E t \in TaskIds : UpdateStep(t)

SpecUpdate == InitUpdate /\ [][NextUpdate]_vars

\* C32: once every sync_update task queued by the updates of the item has
\* returned successfully, the last payload the marketplace received carries
\* the item's local quantity.
C32_LastPayloadIsLatestRow ==
    ( /\ \A t \in TaskIds : upd.task[t].pc \in {"none", "done"}
      /\ \A t \in TaskIds : upd.task[t].kind \in {"none", "sync_update"}
      /\ \E t \in TaskIds : upd.task[t].pc = "done" )
    => /\ HasRow(1)
       /\ upd.received.any
       /\ upd.received.quantity = RowById(1).quantity

\* C33: once the task of an operation has finished, with a result or with an
\* exception, the operation's status is completed or failed.
C33_FinishedTaskEndsOperation ==
    \A t \in TaskIds :
        upd.task[t].pc \in {"done", "failed"} =>
            operations[t].status \in {"completed", "failed"}

(***************************************************************************)
(* SpecDup: one bulk sync over an export that lists the same product, and  *)
(* so the same (user, blueprint, external_stock_id) key, twice; no call    *)
(* fails but what the unique constraint refuses.                           *)
(***************************************************************************)
\* Exports of two entries for product 1 of blueprint 1.
DupExports ==
    {<<[id |-> 1, blueprint_id |-> 1, quantity |-> q1],
       [id |-> 1, blueprint_id |-> 1, quantity |-> q2]>> :
        q1 \in Quantities, q2 \in Quantities}

\* The user has no row yet, or has the product's row from an earlier sync.
InitDup ==
    /\ rows \in {{}} \cup {{StockRow(q)} : q \in Quantities}
    /\ remote = NoProduct
    /\ PurchaseAtRest
    /\ WebhookAtRest
    /\ export \in DupExports
    /\ syncStatus = "idle"
    /\ settings = NoSettings
    /\ operations = [t \in TaskIds |-> NoOperation]
    /\ startReq = NoStart
    /\ upd = NoUpdates
    /\ tasks = [t \in TaskIds |-> NoTask]
    /\ KVAtRest

NextDup == BulkStep(1)

SpecDup == InitDup /\ [][NextDup]_vars

\* C34: a bulk sync over an export with the same key twice does not fail on
\* the key: it ends with sync_status ACTIVE and one row for the key.
C34_DuplicateKeyRunCompletes ==
    \A t \in TaskIds :
        /\ tasks[t].pc # "failed"
        /\ tasks[t].pc = "done" =>
              /\ syncStatus = "active"
              /\ Cardinality({r \in rows : RowKey(r) = ProductKey(export[1])}) = 1

(***************************************************************************)
(* SpecPlain: RateLimiter.check_and_consume (services/rate_limiter.py),    *)
(* the token bucket without the adaptive factor: a hgetall, a decision in  *)
(* the caller and a hset, with a Redis server that may stop answering.     *)
(* The key outlives its refill_time, so its expiry is not modelled.        *)
(***************************************************************************)
\* wait_seconds = refill_time - now, in ticks.
PlainWaitNone(refill_time, t) == 0

PlainWait(refill_time, t) == refill_time - t

\* What the call decides from the bucket_data it read: the fields it writes
\* to the hash and its answer. A new or refilled bucket is written whole, a
\* consumed token as the tokens field alone.
PlainDecision(bucket_data, t, requests, window_seconds) ==
    IF ~bucket_data.present \/ t >= bucket_data.refill_time
    THEN [write |-> "bucket", tokens |-> requests - 1,
          refill_time |-> t + window_seconds * TicksPerSecond,
          allowed |-> TRUE, wait_seconds |-> 0]
    ELSE IF bucket_data.tokens > 0
         THEN [write |-> "tokens", tokens |-> bucket_data.tokens - 1,
               refill_time |-> bucket_data.refill_time,
               allowed |-> TRUE, wait_seconds |-> 0]
         ELSE [write |-> "none", tokens |-> bucket_data.tokens,
               refill_time |-> bucket_data.refill_time,
               allowed |-> FALSE,
               wait_seconds |-> PlainWait(bucket_data.refill_time, t)]

\* The hash after the call's hset.
PlainStored(b, d) ==
    CASE d.write = "bucket" ->
             [present |-> TRUE, tokens |-> d.tokens, refill_time |-> d.refill_time]
      [] d.write = "tokens" -> [b EXCEPT !.present = TRUE, !.tokens = d.tokens]
      [] OTHER -> b

\* except Exception: the call fails open.
PlainFailOpen(c) ==
    [c EXCEPT !.pc = "done", !.allowed = TRUE, !.wait_seconds = 0,
              !.kv_answered = FALSE, !.outcome = "fail_open"]

restPlain == <<now, kvUp, sinceRefill, restLimiter>>

\* check_and_consume is entered: now = time.time().
PlainStart(w) ==
    /\ lim[w].pc = "idle"
    /\ lim' = [lim EXCEPT ![w] = [@ EXCEPT !.pc = "plain_get", !.op = "plain",
                                           !.now = now]]
    /\ UNCHANGED <<bucket, restPlain>>

\* bucket_data = self.redis.hgetall(key)
PlainGet(w) ==
    /\ lim[w].pc = "plain_get"
    /\ lim' = [lim EXCEPT ![w] =
                 IF kvUp
                 THEN [@ EXCEPT !.pc = "plain_set", !.bucket_data = bucket]
                 ELSE PlainFailOpen(@)]
    /\ UNCHANGED <<bucket, restPlain>>

\* The decision, its hset when it makes one, and the return.
PlainSet(w) ==
    /\ lim[w].pc = "plain_set"
    /\ LET d == PlainDecision(lim[w].bucket_data, lim[w].now, BaseRequests, WindowSeconds)
       IN IF kvUp \/ d.write = "none"
          THEN /\ bucket' = PlainStored(bucket, d)
               /\ lim' = [lim EXCEPT ![w] = [@ EXCEPT !.pc = "done",
                              !.allowed = d.allowed, !.wait_seconds = d.wait_seconds,
                              !.kv_answered = TRUE, !.outcome = "answered"]]
          ELSE /\ bucket' = bucket
               /\ lim' = [lim EXCEPT ![w] = PlainFailOpen(@)]
    /\ UNCHANGED restPlain

InitPlain ==
    /\ rows = {}
    /\ remote = NoProduct
    /\ PurchaseAtRest
    /\ WebhookAtRest
    /\ BulkAtRest
    /\ BreakerAtRest
    /\ rq = [w \in Workers |-> IdleRetry]
    /\ now = 0
    /\ kvUp \in BOOLEAN
    /\ factor = NoFactor
    /\ recent429 = FALSE
    /\ notified = NoNotified
    /\ bucket = NoBucket
    /\ sinceRefill = NoRefill
    /\ lim = [w \in Workers |-> IdleCaller]

PlainStep(w) ==
    \/ PlainStart(w)
    \/ PlainGet(w)
    \/ PlainSet(w)
    \/ CallerReturns(w)

NextPlain ==
    \/ \E w \in Workers : PlainStep(w)
    \/ LimiterTick
    \/ KvFlips

SpecPlain == InitPlain /\ [][NextPlain]_vars

\* C35: a call answered from the bucket it read is allowed exactly when that
\* bucket was absent, due for a refill or held a token. Read absent, the call
\* returns (True, None) and stores requests - 1 tokens; read with 0 tokens
\* before its refill_time, the call returns (False, wait) with wait > 0 and
\* writes nothing.
C35_PlainBucketDecision ==
    [][\A w \in Workers :
          (lim[w].pc = "plain_set" /\ lim'[w].pc = "done" /\ lim'[w].kv_answered) =>
              LET b == lim[w].bucket_data
                  empty == b.present /\ b.tokens = 0 /\ lim[w].now < b.refill_time
              IN /\ lim'[w].allowed = ~empty
                 /\ ~b.present =>
                       /\ lim'[w].allowed
                       /\ lim'[w].wait_seconds = 0
                       /\ bucket'.present
                       /\ bucket'.tokens = BaseRequests - 1
                 /\ empty =>
                       /\ ~lim'[w].allowed
                       /\ lim'[w].wait_seconds > 0
                       /\ bucket' = bucket]_vars

\* C35 witness: a call was denied with a wait while another call, which had
\* found no bucket, was allowed.
C35_Witness ==
    \E w \in Workers, v \in Workers :
        /\ lim[w].pc = "done"
        /\ lim[w].op = "plain"
        /\ lim[w].kv_answered
        /\ ~lim[w].allowed
        /\ lim[w].wait_seconds > 0
        /\ bucket.present
        /\ bucket.tokens = 0
        /\ lim[v].pc = "done"
        /\ lim[v].kv_answered
        /\ lim[v].allowed
        /\ ~lim[v].bucket_data.present

\* C36: a start request without force is not accepted while the bulk sync
\* task queued by an earlier unforced start request of the user is still in
\* flight: the two never both have a task queued.
C36_OneUnforcedTaskInFlight ==
    [][~ \E t \in TaskIds, u \in TaskIds :
            /\ u # t
            /\ startReq.answer = "accepted"
            /\ ~startReq.force
            /\ startReq.task_id = u
            /\ tasks[u].pc = "queued"
            /\ tasks[t].pc = "none"
            /\ startReq'.answer = "accepted"
            /\ ~startReq'.force
            /\ startReq'.task_id = t
            /\ tasks'[t].pc = "queued"
            /\ tasks'[u].pc = "queued"]_vars

(***************************************************************************)
(* SpecExpiry: the circuit breaker's methods as in SpecCircuit, with a     *)
(* clock that runs past the TTL set_state gives the state key.             *)
(***************************************************************************)
\* Time passes while nothing calls the breaker, up to the state key's TTL.
IdleTick ==
    /\ now < 2 * BreakerTimeout
    /\ now' = now + 1
    /\ UNCHANGED <<brState, brOpenedAt, brFailures, lastOpened, halfOpened,
                   varsCircuit, restCircuit>>

NextExpiry ==
    \/ RecordFailure
    \/ RecordSuccess
    \/ AttemptReset
    \/ IdleTick

SpecExpiry == InitCircuit /\ [][NextExpiry]_vars

\* C37: an OPEN breaker is left only for HALF_OPEN, and a breaker that is
\* OPEN or HALF_OPEN becomes CLOSED only from HALF_OPEN and by a write of
\* the state, never by time passing alone.
C37_NoClosingByTime ==
    [][/\ (BreakerState = "OPEN" /\ BreakerState' # "OPEN") =>
              /\ BreakerState' = "HALF_OPEN"
              /\ brState' # brState
       /\ (BreakerState = "HALF_OPEN" /\ BreakerState' = "CLOSED") =>
              brState' # brState]_vars

(***************************************************************************)
(* SpecDelete: sync_delete tasks of one user, each for an item deleted     *)
(* locally; the client's breaker check, the DELETE and what its answer     *)
(* does to the breaker's keys are one step per task run.                   *)
(***************************************************************************)
\* The queued sync_delete tasks.
DeleteIds == 1..FailureThreshold

restDelete ==
    <<rows, remote, varsPurchase, varsWebhook, export, syncStatus, settings,
      operations, startReq, tasks, varsLimiter, brk, varsCircuit, rq>>

\* What the DELETE is answered: 200 for a product still listed, 404 for one
\* that is gone from the marketplace.
DeleteAnswers == {"deleted", "not_found"}

\* _sync_delete_product_async: delete_product calls _make_request, which
\* raises RateLimitError at an OPEN breaker whose reset is not due (the task
\* is retried) and sets a due one HALF_OPEN; a 404 is an HTTPStatusError
\* other than 429, so _make_request calls record_failure("api_error") and
\* raises CardTraderAPIError, which delete_product turns into the
\* already_deleted result; the task returns success either way.
SyncDeleteProduct(t) ==
    /\ upd.task[t].pc = "queued"
    /\ upd.task[t].kind = "sync_delete"
    /\ \E answer \in DeleteAnswers :
          LET open == BreakerState = "OPEN"
              refused == open /\ ~ShouldAttemptReset
              recorded == ~refused /\ answer = "not_found"
              opens == recorded /\ OpensCircuit(IncrFailures)
          IN /\ upd' = IF refused
                       THEN [upd EXCEPT !.task[t] = RetriedTask(@)]
                       ELSE [upd EXCEPT !.task[t].pc = "done"]
             /\ brFailures' = IF recorded
                              THEN [count |-> IncrFailures,
                                    expires |-> now + BreakerTimeout]
                              ELSE brFailures
             /\ brState' = IF opens THEN SetState("OPEN")
                           ELSE IF open /\ ~refused THEN SetState("HALF_OPEN")
                           ELSE brState
             /\ brOpenedAt' = IF opens
                              THEN [at |-> now, expires |-> now + BreakerTimeout]
                              ELSE brOpenedAt
             /\ lastOpened' = IF opens THEN [ever |-> TRUE, at |-> now]
                              ELSE lastOpened
             /\ halfOpened' = IF open /\ ~refused
                              THEN [ever |-> TRUE, elapsed |-> now - lastOpened.at,
                                    oks |-> 0]
                              ELSE halfOpened
    /\ UNCHANGED <<now, restDelete>>

\* The items are gone locally and their sync_delete tasks are queued.
InitDelete ==
    /\ rows = {}
    /\ remote = NoProduct
    /\ PurchaseAtRest
    /\ WebhookAtRest
    /\ startReq = NoStart
    /\ upd = [task |-> [t \in DeleteIds |->
                           [NoUpdate EXCEPT !.pc = "queued", !.kind = "sync_delete"]],
              received |-> NoPayload]
    /\ export = <<>>
    /\ syncStatus = "idle"
    /\ settings = NoSettings
    /\ operations = [t \in TaskIds |-> NoOperation]
    /\ tasks = [t \in TaskIds |-> NoTask]
    /\ KVAtRest

NextDelete ==
    \/ \E t \in DeleteIds : SyncDeleteProduct(t)
    \/ CircuitTick

SpecDelete == InitDelete /\ [][NextDelete]_vars

\* C38: sync_delete tasks whose DELETE is answered 200 or 404, and nothing
\* else calling the marketplace, never open the breaker.
C38_AlreadyDeletedNeverOpens ==
    /\ ~lastOpened.ever
    /\ BreakerState # "OPEN"

(***************************************************************************)
(* SpecAvail: purchase_item run by one buyer, nothing else touching the    *)
(* item or the marketplace, so that between the availability check and the *)
(* write that follows it the marketplace's quantity stays what it was.     *)
(***************************************************************************)
NextAvail == PurchaseStep(1)

SpecAvail == InitPurchase /\ [][NextAvail]_vars

\* The availability check of buyer p has returned and did not give the
\* quantity the marketplace holds: the call raised inside
\* check_product_availability.
CheckFailed(p) ==
    /\ pur[p].pc \in {"insuf_write", "remote_insuf_write", "apply"}
    /\ pur[p].cardtrader_quantity # AvailabilityQuantity(remote, TRUE)

\* C39: a purchase whose availability check failed goes on to an error
\* response and does not write the item's row.
C39_FailedCheckLeavesQuantity ==
    [][CheckFailed(1) =>
          /\ rows' = rows
          /\ pur'[1].status # "success"]_vars

(***************************************************************************)
(* SpecOrder: the webhooks of one order, nothing else touching the store:  *)
(* order.create, then at most one order.update with the order's new state, *)
(* then order.destroy.                                                     *)
(***************************************************************************)
restOrder == <<remote, varsPurchase, lastOp, whReq, varsBulk, varsKV>>

\* process_webhook with cause order.update: the payload carries the order's
\* new state and the state it had.
OrderUpdated ==
    /\ whPc = "created"
    /\ \E state \in OrderStates \ {whOrder.state} :
          LET order == [whOrder EXCEPT !.state = state,
                                       !.previous_state = whOrder.state]
          IN /\ rows' = HandleOrderUpdate(rows, order)
             /\ whOrder' = order
    /\ whPc' = "updated"
    /\ UNCHANGED <<whBefore, restOrder>>

\* process_webhook with cause order.destroy, after the create or the update.
OrderDestroyed ==
    /\ whPc \in {"created", "updated"}
    /\ rows' = HandleOrderDestroy(rows, whOrder)
    /\ whPc' = "destroyed"
    /\ UNCHANGED <<whBefore, whOrder, restOrder>>

NextOrder ==
    \/ WebhookOrderCreate
    \/ OrderUpdated
    \/ OrderDestroyed

SpecOrder == InitWebhook /\ [][NextOrder]_vars

\* C40: the webhooks of one order never leave an item above the quantity it
\* had before the order.create: what order.update and order.destroy add
\* back is at most what order.create deducted.
C40_RestoreWithinDeduction ==
    whPc # "start" =>
        \A r \in rows : \E b \in whBefore : b.id = r.id /\ r.quantity <= b.quantity

====
